---- MODULE Spec2Model ----
(***************************************************************************)
(* Model of the FaceValidator session of face-validator-sdk: the           *)
(* asynchronous initialization, the requestAnimationFrame detection loop   *)
(* with its per-frame classification, the stability timer, the capture     *)
(* step and stop().                                                        *)
(*                                                                         *)
(* Normalized coordinates (0..1) are held as integers in hundredths; the   *)
(* frame is videoWidth x videoHeight = 100 x 100 so one hundredth is one   *)
(* pixel.  Timestamps are integer ticks of performance.now(), always > 0;  *)
(* null is 0 for stableSince and NoFace for lastDetection.                 *)
(***************************************************************************)
EXTENDS Integers, Sequences, FiniteSets, TLC

VARIABLES
    initPc,            \* position of init(): "vision","face","hand","camera","done","failed"
    camera,            \* cameraReadyPromise: "pending","ready","failed"
    faceLandmarker,    \* "null","open","closed","closedAgain"
    handLandmarker,    \* "null","open","closed","closedAgain"
    animationFrameId,  \* "null","pending" (a request not yet run),"stale"
    rafPending,        \* number of animation-frame requests not yet run or cancelled
    lastDetection,     \* NoFace or the bounding box of the retained face
    stableSince,       \* 0 (null) or the timestamp the stability timer started
    isCapturing,       \* capture latch
    blobPending,       \* canvas.toBlob callbacks not yet delivered
    now,               \* performance.now() at the last iteration
    frame,             \* the detector output handed to the iteration (SpecClassify)
    emitted,           \* statuses passed to onStatusUpdate by the last handler, in order
    iter,              \* what the last handler was and how it went
    hist,              \* observations accumulated over the session
    twin,              \* start state and outcome of the first of two runs (SpecTwice);
                       \* the state of the ReactSelfieCapture component (SpecEffect)
    options,           \* this.options, the resolved options
    ctorOptions        \* the options the constructor was called with

vars == <<initPc, camera, faceLandmarker, handLandmarker, animationFrameId,
          rafPending, lastDetection, stableSince, isCapturing, blobPending,
          now, frame, emitted, iter, hist, twin, options, ctorOptions>>

----------------------------------------------------------------------------
(* Bounds of the model *)

MaxTime == 6        \* last timestamp an iteration may read
MaxDt == 2          \* largest gap between two iterations, in ticks

(* Options of the session under analysis *)

videoWidth == 100
videoHeight == 100
minFaceSizeFactor == 15          \* 0.15 of the frame width
maxFaceSizeFactor == 75          \* 0.75 of the frame width
stabilizationTimeThreshold == 2  \* ticks a valid pose must be held
stabilityMovementThreshold == 5  \* pixels
maxHandFaceDistance == 15        \* 0.15 normalized
minIlluminationThreshold == 50

(* utils constants *)

OVAL_RADIUS_X_FACTOR == 20       \* 0.20 of the frame width
OVAL_RADIUS_Y_FACTOR == 34       \* 0.34 of the frame height
FACE_LANDMARKS == 478
MEDIAPIPE_NOSE_TIP == 4

----------------------------------------------------------------------------
(* Options and messages. Factors and scores are in hundredths, times in    *)
(* ticks of 500 ms. A message is a tuple: <<locale, key>> names the text   *)
(* of that key in the locale's table, <<>> is the empty string, which like *)
(* undefined is falsy.                                                     *)

DEFAULT_LOCALE == "en"

\* a constructor call that passes none of the optional options
NoOptions == [k \in {} |-> 0]

NoMessages == [s \in {} |-> <<>>]

\* lines 432-456
defaultOptions ==
    [minDetectionConfidence |-> 40,
     minIlluminationThreshold |-> minIlluminationThreshold,
     minFaceSizeFactor |-> minFaceSizeFactor,
     maxFaceSizeFactor |-> maxFaceSizeFactor,
     stabilizationTimeThreshold |-> stabilizationTimeThreshold,
     stabilityMovementThreshold |-> stabilityMovementThreshold,
     minFaceVisibilityScore |-> 40,
     maxHeadTiltDegrees |-> 30,
     maxHandFaceDistance |-> maxHandFaceDistance,
     debugMode |-> FALSE,
     locale |-> DEFAULT_LOCALE,
     customMessages |-> NoMessages]

\* the defaults of the README table and of the comments of FaceValidatorOptions
DocumentedDefaults ==
    [minDetectionConfidence |-> 50,
     minIlluminationThreshold |-> 70,
     minFaceSizeFactor |-> 25,
     maxFaceSizeFactor |-> 65,
     stabilizationTimeThreshold |-> 2,
     stabilityMovementThreshold |-> 5,
     minFaceVisibilityScore |-> 50,
     maxHeadTiltDegrees |-> 28,
     maxHandFaceDistance |-> 15,
     debugMode |-> FALSE,
     locale |-> "en"]

\* lines 492-511: the caller's options over the defaults; locale and
\* customMessages fall back when falsy
resolveOptions(o) ==
    [k \in DOMAIN defaultOptions |->
        IF k = "locale"
        THEN IF k \in DOMAIN o /\ o[k] # "" THEN o[k] ELSE DEFAULT_LOCALE
        ELSE IF k = "customMessages"
        THEN IF k \in DOMAIN o THEN o[k] ELSE NoMessages
        ELSE IF k \in DOMAIN o THEN o[k] ELSE defaultOptions[k]]

\* i18n getMessage, lines 390-392
getMessage(status, locale) == <<locale, status>>

\* i18n getLoadingModelsMessage, lines 397-404
getLoadingModelsMessage(locale) == <<locale, "LOADING_MODELS">>

\* lines 663-669
getMessageForStatus(status, messageOverride, opts) ==
    IF messageOverride # <<>> THEN messageOverride
    ELSE IF status \in DOMAIN opts.customMessages /\ opts.customMessages[status] # <<>>
    THEN opts.customMessages[status]
    ELSE getMessage(status, opts.locale)

\* drawOverlay whose debug branch reads the landmarks without the length test
drawOverlay_unguarded(debugMode, status, hasFace, f) ==
    [throws |-> debugMode /\ hasFace /\ f.count < FACE_LANDMARKS,
     layers |-> {"oval"}
                  \cup (IF debugMode /\ hasFace THEN {"faceBox", "facePoints"} ELSE {})
                  \cup (IF debugMode /\ Len(f.hands) > 0 THEN {"hands"} ELSE {})]

\* utils drawOverlay, lines 530-697: what is drawn, and whether it throws.
\* The validator hands it values and gets nothing back.
drawOverlay(debugMode, status, hasFace, f) ==
    [throws |-> FALSE,
     layers |-> {"oval"}
                  \cup (IF debugMode /\ hasFace /\ f.count >= FACE_LANDMARKS
                        THEN {"faceBox", "facePoints"} ELSE {})
                  \cup (IF debugMode /\ Len(f.hands) > 0 THEN {"hands"} ELSE {})]

NoFace == [none |-> TRUE]
NoTwin == [phase |-> "off"]
NegInf == -1000                  \* stands for -Infinity (Math.max() of no values)
PosInf == 1000                   \* stands for +Infinity (Math.min() of no values)

Abs(x) == IF x < 0 THEN -x ELSE x

----------------------------------------------------------------------------
(* Geometry predicates *)

\* estimateBoundingBox: extrema of the landmark coordinates. A face is given
\* by the extrema of its landmarks (ext) and the number of landmarks; with no
\* landmarks Math.min() is +Infinity and Math.max() is -Infinity.
estimateBoundingBox(f) ==
    IF f.count = 0
    THEN [xMin |-> PosInf, yMin |-> PosInf, width |-> NegInf, height |-> NegInf]
    ELSE [xMin |-> f.ext.xMin, yMin |-> f.ext.yMin,
          width |-> f.ext.xMax - f.ext.xMin, height |-> f.ext.yMax - f.ext.yMin]

\* checkFaceDistance that rejects a width equal to a bound
checkFaceDistance_inclusive(boundingBox, minF, maxF) ==
    IF boundingBox.width <= minF THEN "TOO_FAR"
    ELSE IF boundingBox.width >= maxF THEN "TOO_CLOSE"
    ELSE "OK"

\* lines 24-34 of utils: strict comparisons, the minimum is tested first
checkFaceDistance(boundingBox, minF, maxF) ==
    IF boundingBox.width < minF THEN "TOO_FAR"
    ELSE IF boundingBox.width > maxF THEN "TOO_CLOSE"
    ELSE "OK"

\* (dx/rx)^2 + (dy/ry)^2 as the pair numerator/denominator, coordinates doubled
\* so that the centre of a box stays an integer.
OvalNum(x2, y2) ==
    LET cx2 == videoWidth
        cy2 == videoHeight
        rx == (videoWidth * OVAL_RADIUS_X_FACTOR) \div 100
        ry == (videoHeight * OVAL_RADIUS_Y_FACTOR) \div 100
    IN (x2 - cx2) * (x2 - cx2) * ry * ry + (y2 - cy2) * (y2 - cy2) * rx * rx

OvalDen ==
    LET rx == (videoWidth * OVAL_RADIUS_X_FACTOR) \div 100
        ry == (videoHeight * OVAL_RADIUS_Y_FACTOR) \div 100
    IN 4 * rx * rx * ry * ry

\* distanceSquared <= 0.6
isPointInsideOval(px, py) ==
    10 * OvalNum(2 * px, 2 * py) <= 6 * OvalDen

\* isFaceBoundingBoxInsideOval that tests the centre of the box only
isFaceBoundingBoxInsideOval_centreOnly(b) ==
    OvalNum(2 * b.xMin + b.width, 2 * b.yMin + b.height) <= OvalDen

\* utils lines 102-147: the centre and all four corners must be inside
isFaceBoundingBoxInsideOval(b) ==
    LET faceLeft == b.xMin
        faceRight == b.xMin + b.width
        faceTop == b.yMin
        faceBottom == b.yMin + b.height
        corners == {<<faceLeft, faceTop>>, <<faceRight, faceTop>>,
                    <<faceLeft, faceBottom>>, <<faceRight, faceBottom>>}
        cornersOutside == Cardinality({c \in corners :
                              OvalNum(2 * c[1], 2 * c[2]) > OvalDen})
    IN IF OvalNum(faceLeft + faceRight, faceTop + faceBottom) > OvalDen
       THEN FALSE
       ELSE cornersOutside = 0

\* every predicate on the landmark list first requires all 478 landmarks
isFaceGeometryPlausible(f) == IF f.count < FACE_LANDMARKS THEN FALSE ELSE f.plausible
isHeadStraight(f) == IF f.count < FACE_LANDMARKS THEN FALSE ELSE f.straight
isNeutralExpression(f) == IF f.count < FACE_LANDMARKS THEN FALSE ELSE f.neutral

\* hasDarkGlasses that reports dark glasses when it cannot sample the eyes
hasDarkGlasses_failClosed(f, px) ==
    IF f.count < FACE_LANDMARKS THEN FALSE
    ELSE IF ~px.eyeCtx THEN TRUE
    ELSE IF px.eyeThrows THEN TRUE
    ELSE px.eyeBrightness < 35

\* hasDarkGlasses: eye-region brightness below 35; false when the 2D context
\* is missing or sampling throws (the catch block, utils lines 377-380)
hasDarkGlasses(f, px) ==
    IF f.count < FACE_LANDMARKS THEN FALSE
    ELSE IF ~px.eyeCtx THEN FALSE
    ELSE IF px.eyeThrows THEN FALSE
    ELSE px.eyeBrightness < 35

\* a hand is the sequence of its landmark points
isHandNearFace(hand, b, maxDistance) ==
    \E i \in 1..Len(hand) :
        LET dx2 == 2 * hand[i][1] - (2 * b.xMin + b.width)
            dy2 == 2 * hand[i][2] - (2 * b.yMin + b.height)
        IN dx2 * dx2 + dy2 * dy2 < 4 * maxDistance * maxDistance

\* isFaceStable with strict comparisons
isFaceStable_strict(cur, prev, movementThreshold) ==
    IF cur = NoFace \/ prev = NoFace THEN FALSE
    ELSE LET deltaX2 == Abs((2 * cur.xMin + cur.width) - (2 * prev.xMin + prev.width)) * videoWidth
             deltaY2 == Abs((2 * cur.yMin + cur.height) - (2 * prev.yMin + prev.height)) * videoHeight
             deltaWidth == Abs(cur.width - prev.width) * videoWidth
             deltaHeight == Abs(cur.height - prev.height) * videoHeight
         IN /\ deltaX2 < 2 * 100 * movementThreshold
            /\ deltaY2 < 2 * 100 * movementThreshold
            /\ deltaWidth < 100 * movementThreshold * 2
            /\ deltaHeight < 100 * movementThreshold * 2

\* lines 474-500 of utils; deltas in pixels times 100, the centre deltas doubled
isFaceStable(cur, prev, movementThreshold) ==
    IF cur = NoFace \/ prev = NoFace THEN FALSE
    ELSE LET deltaX2 == Abs((2 * cur.xMin + cur.width) - (2 * prev.xMin + prev.width)) * videoWidth
             deltaY2 == Abs((2 * cur.yMin + cur.height) - (2 * prev.yMin + prev.height)) * videoHeight
             deltaWidth == Abs(cur.width - prev.width) * videoWidth
             deltaHeight == Abs(cur.height - prev.height) * videoHeight
         IN /\ deltaX2 <= 2 * 100 * movementThreshold
            /\ deltaY2 <= 2 * 100 * movementThreshold
            /\ deltaWidth <= 100 * movementThreshold * 2
            /\ deltaHeight <= 100 * movementThreshold * 2

----------------------------------------------------------------------------
(* Detector output and pixel data of one video frame *)

Ext(x0, y0, x1, y1) == [xMin |-> x0, yMin |-> y0, xMax |-> x1, yMax |-> y1]

\* landmark extrema and nose tip of the faces the detector may report
GCentered == [ext |-> Ext(40, 30, 60, 70), nose |-> <<50, 50>>]
GMoved    == [ext |-> Ext(41, 30, 61, 70), nose |-> <<51, 50>>]   \* 1 px to the right
GJumped   == [ext |-> Ext(46, 30, 66, 70), nose |-> <<56, 50>>]   \* 6 px to the right
GFar      == [ext |-> Ext(45, 40, 55, 60), nose |-> <<50, 50>>]   \* width 0.10
GClose    == [ext |-> Ext(10, 10, 90, 90), nose |-> <<50, 50>>]   \* width 0.80
GNoseOut  == [ext |-> Ext(46, 30, 66, 70), nose |-> <<66, 30>>]   \* box inside, nose outside
GBoxOut   == [ext |-> Ext(35, 25, 65, 75), nose |-> <<50, 50>>]   \* nose inside, box outside
GAside    == [ext |-> Ext(60, 30, 80, 70), nose |-> <<70, 50>>]   \* both outside

Geometries == {GCentered, GMoved, GJumped, GFar, GClose, GNoseOut, GBoxOut, GAside}

HandFar == <<<<90, 90>>, <<95, 90>>>>
HandNear == <<<<90, 90>>, <<52, 52>>>>
HandSets == {<<>>, <<HandFar>>, <<HandNear>>, <<HandFar, HandNear>>, <<HandNear, HandFar>>}

\* eye-region sampling of hasDarkGlasses and face-region sampling of the
\* illumination check: whether the 2D context exists, whether sampling
\* throws, and the average brightness read
Pixels ==
    [eyeCtx : BOOLEAN, eyeThrows : {FALSE}, eyeBrightness : {20, 90}, ctx : BOOLEAN,
     throws : BOOLEAN, brightness : {40, 50, 150}]

GoodPixels == [eyeCtx |-> TRUE, eyeThrows |-> FALSE, eyeBrightness |-> 90, ctx |-> TRUE,
               throws |-> FALSE, brightness |-> 150]

FaceFrame(g, n, pl, st, ne, hs, px) ==
    [faces |-> 1, count |-> n, ext |-> g.ext, nose |-> g.nose, plausible |-> pl,
     straight |-> st, neutral |-> ne, hands |-> hs, px |-> px]

GoodFrame(g) == FaceFrame(g, FACE_LANDMARKS, TRUE, TRUE, TRUE, <<>>, GoodPixels)

NoFaceFrame(k, hs) ==
    [faces |-> k, count |-> 0, ext |-> GCentered.ext, nose |-> GCentered.nose,
     plausible |-> TRUE, straight |-> TRUE, neutral |-> TRUE, hands |-> hs,
     px |-> GoodPixels]

\* every combination of check outcomes for a frame with one face
AllOneFaceFrames ==
    {FaceFrame(g, FACE_LANDMARKS, pl, st, ne, hs, px) :
        g \in Geometries, pl \in BOOLEAN, st \in BOOLEAN, ne \in BOOLEAN,
        hs \in HandSets, px \in Pixels}

\* the frames the session is driven with: a valid pose held still or jumped,
\* a dark frame, a frame without a 2D context for the illumination sample,
\* a malformed landmark list, no face and two faces
Frames ==
    {GoodFrame(GCentered), GoodFrame(GJumped),
     FaceFrame(GCentered, FACE_LANDMARKS, TRUE, TRUE, TRUE, <<>>,
               [GoodPixels EXCEPT !.brightness = 40]),
     FaceFrame(GCentered, FACE_LANDMARKS, TRUE, TRUE, TRUE, <<>>,
               [GoodPixels EXCEPT !.ctx = FALSE]),
     FaceFrame(GCentered, 3, TRUE, TRUE, TRUE, <<>>, GoodPixels),
     NoFaceFrame(0, <<>>), NoFaceFrame(2, <<>>)}

NoFrame == [faces |-> -1]

----------------------------------------------------------------------------
(* Classification of one frame: lines 798-922 of the detection loop *)

Verdict(s, ss, face, v) ==
    [status |-> s, stableSince |-> ss, faceData |-> face, thrown |-> FALSE, stable |-> v]

\* an exception leaves the try block before lastDetection is assigned
Thrown(ss) ==
    [status |-> "NONE", stableSince |-> ss, faceData |-> NoFace, thrown |-> TRUE,
     stable |-> "na"]

\* StabilityStep that keeps the timer running over an unstable frame
StabilityStep_keepsTimer(faceData, last, ss, t) ==
    IF isFaceStable(faceData, last, stabilityMovementThreshold)
    THEN LET since == IF ss = 0 THEN t ELSE ss
         IN IF t - since >= stabilizationTimeThreshold
            THEN Verdict("CAPTURING", since, faceData, "stable")
            ELSE Verdict("STAY_STILL", since, faceData, "stable")
    ELSE Verdict("STAY_STILL", ss, faceData, "unstable")

\* StabilityStep that stops reporting CAPTURING once the latch is set
StabilityStep_latched(faceData, last, ss, t) ==
    IF isFaceStable(faceData, last, stabilityMovementThreshold)
    THEN LET since == IF ss = 0 THEN t ELSE ss
         IN IF t - since >= stabilizationTimeThreshold /\ ~isCapturing
            THEN Verdict("CAPTURING", since, faceData, "stable")
            ELSE Verdict("STAY_STILL", since, faceData, "stable")
    ELSE Verdict("STAY_STILL", 0, faceData, "unstable")

\* lines 891-910: the stability timer
StabilityStep(faceData, last, ss, t) ==
    IF isFaceStable(faceData, last, stabilityMovementThreshold)
    THEN LET since == IF ss = 0 THEN t ELSE ss
         IN IF t - since >= stabilizationTimeThreshold
            THEN Verdict("CAPTURING", since, faceData, "stable")
            ELSE Verdict("STAY_STILL", since, faceData, "stable")
    ELSE Verdict("STAY_STILL", 0, faceData, "unstable")

\* lines 871-915: illumination of the face region
IlluminationStep(f, faceData, last, ss, t) ==
    IF ~f.px.ctx THEN Verdict("FACE_DETECTED", 0, faceData, "na")
    ELSE IF f.px.throws THEN Thrown(ss)
    ELSE IF f.px.brightness < minIlluminationThreshold
         THEN Verdict("POOR_ILLUMINATION", 0, faceData, "na")
         ELSE StabilityStep(faceData, last, ss, t)

\* OneFaceStep with the hand check run before the head-pose check
OneFaceStep_handFirst(f, last, ss, t) ==
    LET boundingBox == estimateBoundingBox(f)
        distanceStatus == checkFaceDistance(boundingBox, minFaceSizeFactor, maxFaceSizeFactor)
    IN IF distanceStatus # "OK"
       THEN Verdict(IF distanceStatus = "TOO_CLOSE" THEN "TOO_CLOSE" ELSE "TOO_FAR",
                    0, boundingBox, "na")
       ELSE IF f.count <= MEDIAPIPE_NOSE_TIP
       THEN Thrown(ss)
       ELSE IF ~isPointInsideOval(f.nose[1], f.nose[2]) \/ ~isFaceBoundingBoxInsideOval(boundingBox)
       THEN Verdict("OFF_CENTER", 0, boundingBox, "na")
       ELSE IF ~isFaceGeometryPlausible(f)
       THEN Verdict("FACE_OBSTRUCTED", 0, boundingBox, "na")
       ELSE IF Len(f.hands) > 0 /\ isHandNearFace(f.hands[1], boundingBox, maxHandFaceDistance)
       THEN Verdict("FACE_OBSTRUCTED", 0, boundingBox, "na")
       ELSE IF ~isHeadStraight(f)
       THEN Verdict("HEAD_NOT_STRAIGHT", 0, boundingBox, "na")
       ELSE IF ~isNeutralExpression(f)
       THEN Verdict("NOT_NEUTRAL_EXPRESSION", 0, boundingBox, "na")
       ELSE IF hasDarkGlasses(f, f.px)
       THEN Verdict("DARK_GLASSES", 0, boundingBox, "na")
       ELSE IlluminationStep(f, boundingBox, last, ss, t)

\* OneFaceStep whose centering check looks at the nose point only
OneFaceStep_noseOnly(f, last, ss, t) ==
    LET boundingBox == estimateBoundingBox(f)
        distanceStatus == checkFaceDistance(boundingBox, minFaceSizeFactor, maxFaceSizeFactor)
    IN IF distanceStatus # "OK"
       THEN Verdict(IF distanceStatus = "TOO_CLOSE" THEN "TOO_CLOSE" ELSE "TOO_FAR",
                    0, boundingBox, "na")
       ELSE IF f.count <= MEDIAPIPE_NOSE_TIP
       THEN Thrown(ss)
       ELSE IF ~isPointInsideOval(f.nose[1], f.nose[2])
       THEN Verdict("OFF_CENTER", 0, boundingBox, "na")
       ELSE IF ~isFaceGeometryPlausible(f)
       THEN Verdict("FACE_OBSTRUCTED", 0, boundingBox, "na")
       ELSE IF ~isHeadStraight(f)
       THEN Verdict("HEAD_NOT_STRAIGHT", 0, boundingBox, "na")
       ELSE IF Len(f.hands) > 0 /\ isHandNearFace(f.hands[1], boundingBox, maxHandFaceDistance)
       THEN Verdict("FACE_OBSTRUCTED", 0, boundingBox, "na")
       ELSE IF ~isNeutralExpression(f)
       THEN Verdict("NOT_NEUTRAL_EXPRESSION", 0, boundingBox, "na")
       ELSE IF hasDarkGlasses(f, f.px)
       THEN Verdict("DARK_GLASSES", 0, boundingBox, "na")
       ELSE IlluminationStep(f, boundingBox, last, ss, t)

\* lines 809-917: the checks on a single face, in source order
OneFaceStep(f, last, ss, t) ==
    LET boundingBox == estimateBoundingBox(f)
        distanceStatus == checkFaceDistance(boundingBox, minFaceSizeFactor, maxFaceSizeFactor)
    IN IF distanceStatus # "OK"
       THEN Verdict(IF distanceStatus = "TOO_CLOSE" THEN "TOO_CLOSE" ELSE "TOO_FAR",
                    0, boundingBox, "na")
       ELSE IF f.count <= MEDIAPIPE_NOSE_TIP
       THEN Thrown(ss)     \* landmarks[4] is undefined: reading nose.x throws
       ELSE IF ~isPointInsideOval(f.nose[1], f.nose[2]) \/ ~isFaceBoundingBoxInsideOval(boundingBox)
       THEN Verdict("OFF_CENTER", 0, boundingBox, "na")
       ELSE IF ~isFaceGeometryPlausible(f)
       THEN Verdict("FACE_OBSTRUCTED", 0, boundingBox, "na")
       ELSE IF ~isHeadStraight(f)
       THEN Verdict("HEAD_NOT_STRAIGHT", 0, boundingBox, "na")
       ELSE IF Len(f.hands) > 0 /\ isHandNearFace(f.hands[1], boundingBox, maxHandFaceDistance)
       THEN Verdict("FACE_OBSTRUCTED", 0, boundingBox, "na")
       ELSE IF ~isNeutralExpression(f)
       THEN Verdict("NOT_NEUTRAL_EXPRESSION", 0, boundingBox, "na")
       ELSE IF hasDarkGlasses(f, f.px)
       THEN Verdict("DARK_GLASSES", 0, boundingBox, "na")
       ELSE IlluminationStep(f, boundingBox, last, ss, t)

\* Classify that runs the single-face checks on the first of several faces
Classify_firstOfMany(f, last, ss, t) ==
    IF f.faces >= 1 THEN OneFaceStep(f, last, ss, t)
    ELSE Verdict("NO_FACE_DETECTED", 0, NoFace, "na")

\* lines 798-922. With several faces faceData stays null: the landmarker is
\* created without blendshape output, so faceBlendshapes[0] is undefined.
Classify(f, last, ss, t) ==
    IF f.faces > 1 THEN Verdict("MULTIPLE_FACES", 0, NoFace, "na")
    ELSE IF f.faces = 1 THEN OneFaceStep(f, last, ss, t)
    ELSE Verdict("NO_FACE_DETECTED", 0, NoFace, "na")

----------------------------------------------------------------------------
(* Session: construction, init(), the detection loop, capture and stop() *)

\* what may go wrong in, or interfere with, one iteration of the loop
Disturbances ==
    {"none",           \* nothing
     "noVideo",        \* video.videoWidth is 0
     "detectThrows",   \* detectForVideo throws
     "overlayThrows",  \* drawOverlay throws
     "cb1",            \* the 1st onStatusUpdate call of the iteration throws
     "cb2",            \* the 2nd onStatusUpdate call of the iteration throws
     "cbAll",          \* every onStatusUpdate call of the iteration throws
     "stopInCb",       \* the observer calls stop() from the 1st onStatusUpdate
     "noCaptureCtx",   \* captureImage gets no 2D context
     "captureThrows"}  \* drawImage/toBlob throws inside captureImage

Throws(d, k) == (d = "cb1" /\ k = 1) \/ (d = "cb2" /\ k = 2) \/ d = "cbAll"

\* stop(), lines 1007-1012: close() is called on a landmarker that exists,
\* closed already or not; the field is not cleared
Closed(lm) ==
    IF lm = "null" THEN "null" ELSE IF lm = "open" THEN "closed" ELSE "closedAgain"

HistInit ==
    [captureCalls |-> 0,        \* calls of captureImage
     captureSuccess |-> 0,      \* calls of onCaptureSuccess
     order |-> <<>>,            \* the capture events in the order they happened
     captureFailed |-> FALSE,   \* image extraction failed
     stopped |-> FALSE,         \* stop() was called by the host and has returned
     afterStop |-> FALSE,       \* an iteration ran or a callback was invoked after that
     lastBad |-> 0,             \* time of the last iteration that emitted other than STAY_STILL
     lastUnstable |-> 0,        \* time of the last frame judged unstable
     capturingSeen |-> FALSE,   \* an earlier iteration emitted CAPTURING
     ranAfterCapturing |-> FALSE,
     loopEnded |-> FALSE,       \* the capture iteration returned after stop()
     ranAfterEnd |-> FALSE]

IterInit ==
    [kind |-> "construct", status |-> "NONE", stable |-> "na", fired |-> FALSE,
     caught |-> FALSE, late |-> FALSE, escaped |-> FALSE, sched |-> FALSE, t |-> 0,
     prevBad |-> 0, prevSince |-> 0]

\* constructor, lines 484-490: setStatus(INITIALIZING), initCamera() up to its
\* first await, init() up to its first await (a second INITIALIZING with the
\* loading message)
Init ==
    /\ initPc = "vision"
    /\ camera = "pending"
    /\ faceLandmarker = "null"
    /\ handLandmarker = "null"
    /\ animationFrameId = "null"
    /\ rafPending = 0
    /\ lastDetection = NoFace
    /\ stableSince = 0
    /\ isCapturing = FALSE
    /\ blobPending = 0
    /\ now = 0
    /\ frame = NoFrame
    /\ emitted = <<"INITIALIZING", "INITIALIZING">>
    /\ iter = IterInit
    /\ hist = HistInit
    /\ twin = NoTwin
    /\ ctorOptions = NoOptions
    /\ options = resolveOptions(ctorOptions)

\* setStatus, lines 671-683, as seen by the observer; h is the history record
Observe(h, s) ==
    [h EXCEPT !.afterStop = @ \/ h.stopped]

\* initCamera, lines 718-743: resolves when the camera is ready; a failure is
\* caught inside, reported with ERROR, and the promise still resolves
CameraSettles ==
    /\ camera = "pending"
    /\ \E ok \in BOOLEAN :
        /\ camera' = IF ok THEN "ready" ELSE "failed"
        /\ emitted' = IF ok THEN <<>> ELSE <<"ERROR">>
        /\ hist' = IF ok THEN hist ELSE Observe(hist, "ERROR")
    /\ iter' = [IterInit EXCEPT !.kind = "camera"]
    /\ UNCHANGED <<initPc, faceLandmarker, handLandmarker, animationFrameId, rafPending,
                   lastDetection, stableSince, isCapturing, blobPending, now, frame, twin,
                   options, ctorOptions>>

\* init, lines 618-661: one step per await; a rejected await goes to the catch
\* block, which reports ERROR
InitStep ==
    /\ initPc \in {"vision", "face", "hand"}
    /\ \E ok \in BOOLEAN :
        /\ initPc' = IF ~ok THEN "failed"
                     ELSE IF initPc = "vision" THEN "face"
                     ELSE IF initPc = "face" THEN "hand" ELSE "camera"
        /\ faceLandmarker' = IF ok /\ initPc = "face" THEN "open" ELSE faceLandmarker
        /\ handLandmarker' = IF ok /\ initPc = "hand" THEN "open" ELSE handLandmarker
        /\ emitted' = IF ok THEN <<>> ELSE <<"ERROR">>
        /\ hist' = IF ok THEN hist ELSE Observe(hist, "ERROR")
    /\ iter' = [IterInit EXCEPT !.kind = "init"]
    /\ UNCHANGED <<camera, animationFrameId, rafPending, lastDetection, stableSince,
                   isCapturing, blobPending, now, frame, twin,
                   options, ctorOptions>>

\* InitStartLoop that does not wait for the camera promise
InitStartLoop_noCameraWait ==
    /\ initPc = "camera"
    /\ initPc' = "done"
    /\ animationFrameId' = "pending"
    /\ rafPending' = rafPending + 1
    /\ emitted' = <<>>
    /\ iter' = [IterInit EXCEPT !.kind = "init", !.sched = TRUE]
    /\ UNCHANGED <<camera, faceLandmarker, handLandmarker, lastDetection, stableSince,
                   isCapturing, blobPending, now, frame, hist, twin,
                   options, ctorOptions>>

\* InitStartLoop that may start the detection loop a second time
InitStartLoop_again ==
    /\ initPc \in {"camera", "done"}
    /\ camera # "pending"
    /\ initPc' = "done"
    /\ animationFrameId' = "pending"
    /\ rafPending' = rafPending + 1
    /\ emitted' = <<>>
    /\ iter' = [IterInit EXCEPT !.kind = "init", !.sched = TRUE]
    /\ UNCHANGED <<camera, faceLandmarker, handLandmarker, lastDetection, stableSince,
                   isCapturing, blobPending, now, frame, hist, twin,
                   options, ctorOptions>>

\* init, lines 652-656, and startDetectionLoop, line 954: once the camera
\* promise has resolved the first iteration is requested
InitStartLoop ==
    /\ initPc = "camera"
    /\ camera # "pending"
    /\ initPc' = "done"
    /\ animationFrameId' = "pending"
    /\ rafPending' = rafPending + 1
    /\ emitted' = <<>>
    /\ iter' = [IterInit EXCEPT !.kind = "init", !.sched = TRUE]
    /\ UNCHANGED <<camera, faceLandmarker, handLandmarker, lastDetection, stableSince,
                   isCapturing, blobPending, now, frame, hist, twin,
                   options, ctorOptions>>

\* stop(), lines 1002-1016, called by the host between two handlers
Stop ==
    /\ animationFrameId' = "null"
    /\ rafPending' = IF animationFrameId = "pending" THEN rafPending - 1 ELSE rafPending
    /\ faceLandmarker' = Closed(faceLandmarker)
    /\ handLandmarker' = Closed(handLandmarker)
    /\ emitted' = <<>>
    /\ iter' = [IterInit EXCEPT !.kind = "stop"]
    /\ hist' = [hist EXCEPT !.stopped = TRUE]
    /\ UNCHANGED <<initPc, camera, lastDetection, stableSince, isCapturing, blobPending,
                   now, frame, twin,
                   options, ctorOptions>>

----------------------------------------------------------------------------
(* One run of detect(), lines 772-952. The run record r carries the fields *)
(* the iteration has written so far and what the observer has seen.        *)

RunStart(h0) ==
    [em |-> <<>>, exc |-> FALSE, ld |-> lastDetection, ss |-> stableSince,
     cap |-> isCapturing, blobs |-> blobPending, flm |-> faceLandmarker,
     hlm |-> handLandmarker, afid |-> "stale", h |-> h0, fired |-> FALSE,
     caught |-> FALSE, late |-> FALSE, escaped |-> FALSE, sched |-> FALSE,
     ended |-> FALSE]

\* setStatus: the observer is called, and may throw
RunSetStatus(r, s, d) ==
    [r EXCEPT !.em = Append(@, s), !.exc = Throws(d, Len(r.em) + 1),
              !.h = Observe(@, s)]

\* stop() run from inside the iteration: the stored request id is the one of
\* the running callback, so cancelAnimationFrame removes nothing
RunStop(r, byHost) ==
    [r EXCEPT !.afid = "null", !.flm = Closed(@), !.hlm = Closed(@),
              !.h = [@ EXCEPT !.stopped = @ \/ byHost,
                              !.order = IF byHost THEN @ ELSE Append(@, "stop")]]

\* RunReport that keeps the face it has retained while a face is in view
RunReport_keepsRetained(r, c, d) ==
    LET r1 == [r EXCEPT !.ld = IF r.ld # NoFace /\ c.faceData # NoFace THEN r.ld
                               ELSE c.faceData,
                        !.ss = c.stableSince]
        r2 == RunSetStatus(r1, c.status, d)
    IN IF d = "stopInCb" THEN RunStop(r2, TRUE) ELSE r2

\* line 925: lastDetection = faceData; setStatus(currentStatus)
RunReport(r, c, d) ==
    LET r1 == [r EXCEPT !.ld = c.faceData, !.ss = c.stableSince]
        r2 == RunSetStatus(r1, c.status, d)
    IN IF d = "stopInCb" THEN RunStop(r2, TRUE) ELSE r2

\* captureImage, lines 975-1000
RunCaptureImage(r, d) ==
    LET r1 == [r EXCEPT !.h = [@ EXCEPT !.captureCalls = @ + 1]]
    IN IF d = "noCaptureCtx"
       THEN LET r2 == RunSetStatus(r1, "ERROR", d)
            IN [r2 EXCEPT !.h = [@ EXCEPT !.captureFailed = TRUE]]
       ELSE IF d = "captureThrows"
       THEN [r1 EXCEPT !.exc = TRUE]
       ELSE [r1 EXCEPT !.blobs = @ + 1]

\* the capture step without the isCapturing latch
RunCapture_noLatch(r, d) ==
    LET r1 == [r EXCEPT !.fired = TRUE,
                        !.h = [@ EXCEPT !.order = Append(@, "latch")]]
        r2 == RunCaptureImage(r1, d)
        r3 == RunSetStatus(r2, "SUCCESS", d)
        r4 == [r3 EXCEPT !.h = [@ EXCEPT !.order = Append(@, "SUCCESS")]]
    IN IF r2.exc THEN r2
       ELSE IF r4.exc THEN r4
       ELSE [RunStop(r4, FALSE) EXCEPT !.ended = TRUE]

\* lines 938-945: the capture step
RunCapture(r, d) ==
    LET r1 == [r EXCEPT !.cap = TRUE, !.fired = TRUE,
                        !.h = [@ EXCEPT !.order = Append(@, "latch")]]
        r2 == RunCaptureImage(r1, d)
        r3 == RunSetStatus(r2, "SUCCESS", d)
        r4 == [r3 EXCEPT !.h = [@ EXCEPT !.order = Append(@, "SUCCESS")]]
    IN IF r2.exc THEN r2
       ELSE IF r4.exc THEN r4
       ELSE [RunStop(r4, FALSE) EXCEPT !.ended = TRUE]

\* a catch block that swallows the fault without reporting it
RunCatch_silent(r, d) ==
    [r EXCEPT !.caught = TRUE, !.late = Len(r.em) > 0, !.exc = FALSE]

\* lines 946-951: the catch block, then the request for the next iteration
RunCatch(r, d) ==
    LET r1 == [r EXCEPT !.caught = TRUE, !.late = Len(r.em) > 0, !.exc = FALSE]
        r2 == RunSetStatus(r1, "ERROR", d)
    IN IF r2.exc THEN [r2 EXCEPT !.escaped = TRUE] ELSE r2

\* the try block, lines 778-945
RunTry(r, c, d) ==
    IF c.thrown THEN [r EXCEPT !.exc = TRUE]
    ELSE LET r1 == RunReport(r, c, d)
         IN IF r1.exc THEN r1
            ELSE IF d = "overlayThrows" \/ c.overlay.throws THEN [r1 EXCEPT !.exc = TRUE]
            ELSE IF c.status = "CAPTURING" /\ ~r1.cap THEN RunCapture(r1, d)
            ELSE r1

RunDetect(h0, c, d) ==
    LET r1 == RunTry(RunStart(h0), c, d)
        r2 == IF r1.exc THEN RunCatch(r1, d) ELSE r1
    IN IF r2.escaped \/ r2.ended THEN r2
       ELSE [r2 EXCEPT !.sched = TRUE, !.afid = "pending"]


Rejecting(em) == \E i \in 1..Len(em) : em[i] \notin {"STAY_STILL", "CAPTURING", "SUCCESS"}
Has(em, s) == \E i \in 1..Len(em) : em[i] = s

\* a skipped iteration that clears the stability state
SkipIteration_clearsState(h0) ==
    /\ animationFrameId' = "pending"
    /\ rafPending' = rafPending
    /\ emitted' = <<>>
    /\ iter' = [IterInit EXCEPT !.kind = "skip", !.sched = TRUE]
    /\ hist' = h0
    /\ lastDetection' = NoFace
    /\ stableSince' = 0
    /\ UNCHANGED <<faceLandmarker, handLandmarker, isCapturing, blobPending, now>>

\* lines 773-776: the iteration only requests the next one
SkipIteration(h0) ==
    /\ animationFrameId' = "pending"
    /\ rafPending' = rafPending
    /\ emitted' = <<>>
    /\ iter' = [IterInit EXCEPT !.kind = "skip", !.sched = TRUE]
    /\ hist' = h0
    /\ UNCHANGED <<faceLandmarker, handLandmarker, lastDetection, stableSince,
                   isCapturing, blobPending, now>>

\* lines 927-936: the overlay is drawn from the status and the face and hand
\* data of the iteration
WithOverlay(c, f) ==
    [status |-> c.status, stableSince |-> c.stableSince, faceData |-> c.faceData,
     thrown |-> c.thrown, stable |-> c.stable,
     overlay |-> drawOverlay(options.debugMode, c.status, c.faceData # NoFace, f)]

\* a scheduled detect() runs: lines 772-952
DetectWith(f, d, dt) ==
    /\ rafPending > 0
    /\ LET h0 == [hist EXCEPT !.afterStop = @ \/ hist.stopped,
                              !.ranAfterEnd = @ \/ hist.loopEnded]
       IN IF faceLandmarker = "null" \/ handLandmarker = "null" \/ d = "noVideo"
          THEN SkipIteration(h0)
          ELSE /\ now + dt <= MaxTime
               /\ \E t \in {now + dt} :      \* each value is bound once
                  \E c \in {IF d = "detectThrows" THEN Thrown(stableSince)
                            ELSE WithOverlay(Classify(f, lastDetection, stableSince, t), f)} :
                  \E r \in {RunDetect([h0 EXCEPT !.ranAfterCapturing = @ \/ hist.capturingSeen],
                                      c, d)} :
                     /\ now' = t
                     /\ lastDetection' = r.ld
                     /\ stableSince' = r.ss
                     /\ isCapturing' = r.cap
                     /\ blobPending' = r.blobs
                     /\ faceLandmarker' = r.flm
                     /\ handLandmarker' = r.hlm
                     /\ animationFrameId' = r.afid
                     /\ rafPending' = rafPending - 1 + (IF r.sched THEN 1 ELSE 0)
                     /\ emitted' = r.em
                     /\ iter' = [kind |-> "classify", status |-> c.status,
                                 stable |-> c.stable, fired |-> r.fired,
                                 caught |-> r.caught, late |-> r.late,
                                 escaped |-> r.escaped, sched |-> r.sched, t |-> t,
                                 prevBad |-> hist.lastBad, prevSince |-> stableSince]
                     /\ hist' = [r.h EXCEPT
                                   !.lastBad = IF Rejecting(r.em) THEN t ELSE @,
                                   !.lastUnstable = IF c.stable = "unstable" THEN t ELSE @,
                                   !.capturingSeen = @ \/ Has(r.em, "CAPTURING"),
                                   !.loopEnded = @ \/ r.ended]
    /\ initPc' = initPc
    /\ camera' = camera

\* every frame undisturbed, and every disturbance on a frame with a valid pose
Inputs ==
    {<<f, "none">> : f \in Frames} \cup {<<GoodFrame(GCentered), d>> : d \in Disturbances}

Detect ==
    /\ \E in \in Inputs, dt \in 1..MaxDt : DetectWith(in[1], in[2], dt)
    /\ frame' = NoFrame
    /\ twin' = twin
    /\ UNCHANGED <<options, ctorOptions>>

\* the callback of canvas.toBlob, lines 990-996, run as a task of its own
BlobCallback ==
    /\ blobPending > 0
    /\ blobPending' = blobPending - 1
    /\ \E blob \in BOOLEAN :
        IF blob
        THEN /\ emitted' = <<>>
             /\ hist' = [hist EXCEPT !.captureSuccess = @ + 1,
                                     !.order = Append(@, "image"),
                                     !.afterStop = @ \/ hist.stopped]
        ELSE /\ emitted' = <<"ERROR">>
             /\ hist' = [Observe(hist, "ERROR") EXCEPT !.captureFailed = TRUE]
    /\ iter' = [IterInit EXCEPT !.kind = "blob"]
    /\ UNCHANGED <<initPc, camera, faceLandmarker, handLandmarker, animationFrameId,
                   rafPending, lastDetection, stableSince, isCapturing, now, frame, twin,
                   options, ctorOptions>>

Next ==
    \/ CameraSettles
    \/ InitStep
    \/ InitStartLoop
    \/ Stop
    \/ Detect
    \/ BlobCallback

Spec == Init /\ [][Next]_vars

TypeOK ==
    /\ initPc \in {"vision", "face", "hand", "camera", "done", "failed"}
    /\ camera \in {"pending", "ready", "failed"}
    /\ faceLandmarker \in {"null", "open", "closed", "closedAgain"}
    /\ handLandmarker \in {"null", "open", "closed", "closedAgain"}
    /\ animationFrameId \in {"null", "pending", "stale"}
    /\ rafPending \in 0..1
    /\ stableSince \in 0..MaxTime
    /\ isCapturing \in BOOLEAN
    /\ blobPending \in 0..1
    /\ now \in 0..MaxTime
    /\ Len(emitted) <= 4

----------------------------------------------------------------------------
(* Classification alone: a running session is handed one frame, drawn from *)
(* every combination of check outcomes, and the loop classifies it.         *)

ShortFrames ==
    {FaceFrame(g, n, TRUE, TRUE, TRUE, <<>>, GoodPixels) :
        g \in Geometries, n \in {0, 3, 5, FACE_LANDMARKS - 1}}

\* zero or two faces reported (numFaces is 2) over varying landmarks of the
\* first face, hands and pixels; with no face the fields of the face are
\* never read
FaceCountFrames ==
    {[FaceFrame(g, n, TRUE, st, TRUE, hs, px) EXCEPT !.faces = k] :
        g \in {GCentered, GFar, GAside}, n \in {3, FACE_LANDMARKS}, st \in BOOLEAN,
        hs \in {<<>>, <<HandNear>>},
        px \in {GoodPixels, [GoodPixels EXCEPT !.brightness = 40],
                [GoodPixels EXCEPT !.throws = TRUE]},
        k \in {0, 2}}

\* a valid pose whose bounding box is w hundredths wide, centred
WidthFrame(w) ==
    GoodFrame([ext |-> Ext(50 - (w \div 2), 40, 50 - (w \div 2) + w, 60),
               nose |-> <<50, 50>>])

\* widths around minFaceSizeFactor and maxFaceSizeFactor
DistanceFrames == {WidthFrame(w) : w \in {0, 10, 14, 15, 16, 40, 74, 75, 76, 85}}

\* Scenario A: a centred face 0.40 wide and 2h hundredths high, nose at the
\* centre, straight, neutral, bright, no hands
ScenarioAFrames ==
    {GoodFrame([ext |-> Ext(30, 50 - h, 70, 50 + h), nose |-> <<50, 50>>]) :
        h \in {1, 20, 30}}

\* one hand with a landmark 0.15 from the centre (0.50, 0.50) of the face
\* (0.09 and 0.12 along the axes), one just nearer, one just farther
HandAtLimit == <<<<90, 90>>, <<59, 62>>>>
HandInside == <<<<90, 90>>, <<58, 62>>>>
HandOutside == <<<<90, 90>>, <<60, 62>>>>

\* faces at and just past the limits of isFaceStable relative to GCentered:
\* centre moved 5 px on both axes and height changed by 10 px; width changed
\* by 10 px; centre moved 6 px down; height changed by 12 px; width by 12 px
GEdge  == [ext |-> Ext(45, 40, 65, 70), nose |-> <<55, 55>>]
GEdgeW == [ext |-> Ext(35, 30, 65, 70), nose |-> <<50, 50>>]
GOverY == [ext |-> Ext(40, 36, 60, 76), nose |-> <<50, 56>>]
GOverH == [ext |-> Ext(40, 36, 60, 64), nose |-> <<50, 50>>]
GOverW == [ext |-> Ext(34, 30, 66, 70), nose |-> <<50, 50>>]

StabilityFrames == {GoodFrame(g) : g \in {GEdge, GEdgeW, GOverY, GOverH, GOverW}}

HandLimitFrames ==
    {FaceFrame(GCentered, FACE_LANDMARKS, TRUE, TRUE, TRUE, <<h>>, GoodPixels) :
        h \in {HandAtLimit, HandInside, HandOutside}}

\* the coordinate nearest to 50 within lo..hi
Clamp(lo, hi) == IF hi < 50 THEN hi ELSE IF lo > 50 THEN lo ELSE 50

\* boxes at least twice the horizontal radius of the oval wide, at every
\* position of a 5-unit grid that keeps them in the frame
WideBoxes ==
    {b \in [x : {5 * i : i \in 0..12}, y : {5 * i : i \in 0..19},
            w : {2 * OVAL_RADIUS_X_FACTOR, 2 * OVAL_RADIUS_X_FACTOR + 1, 60,
                 maxFaceSizeFactor},
            h : {1, 20, 60}] :
        b.x + b.w <= videoWidth /\ b.y + b.h <= videoHeight}

\* a valid pose with such a bounding box; the nose is the point of the box
\* nearest to the centre of the frame
WideFrames ==
    {GoodFrame([ext |-> Ext(b.x, b.y, b.x + b.w, b.y + b.h),
                nose |-> <<Clamp(b.x, b.x + b.w), Clamp(b.y, b.y + b.h)>>]) :
        b \in WideBoxes}

\* a valid pose whose eye regions cannot be sampled, or are dark, on a full
\* and on a short landmark list
EyeFaultFrames ==
    {FaceFrame(GCentered, n, TRUE, TRUE, TRUE, <<>>,
               [GoodPixels EXCEPT !.eyeCtx = c, !.eyeThrows = e, !.eyeBrightness = b,
                                  !.brightness = br]) :
        n \in {FACE_LANDMARKS, FACE_LANDMARKS - 1}, c \in BOOLEAN, e \in BOOLEAN,
        b \in {20, 90}, br \in {40, 150}}

ClassifyFrames ==
    AllOneFaceFrames \cup ShortFrames
        \cup {NoFaceFrame(k, hs) : k \in {0, 2}, hs \in HandSets}
        \cup FaceCountFrames \cup DistanceFrames \cup ScenarioAFrames
        \cup HandLimitFrames \cup StabilityFrames \cup EyeFaultFrames \cup WideFrames

InitClassify ==
    /\ initPc = "done"
    /\ camera = "ready"
    /\ faceLandmarker = "open"
    /\ handLandmarker = "open"
    /\ animationFrameId = "pending"
    /\ rafPending = 1
    /\ isCapturing = FALSE
    /\ blobPending = 0
    /\ now = 2
    /\ \E st \in {<<NoFace, 0>>, <<estimateBoundingBox(GoodFrame(GCentered)), 0>>,
                  <<estimateBoundingBox(GoodFrame(GCentered)), 2>>} :
          lastDetection = st[1] /\ stableSince = st[2]
    /\ frame \in ClassifyFrames
    /\ emitted = <<>>
    /\ iter = [IterInit EXCEPT !.kind = "init", !.sched = TRUE]
    /\ hist = HistInit
    /\ twin = NoTwin
    /\ ctorOptions = NoOptions
    /\ options = resolveOptions(ctorOptions)

ClassifyFrame ==
    /\ \E dt \in 1..MaxDt : DetectWith(frame, "none", dt)
    /\ frame' = frame
    /\ twin' = twin
    /\ UNCHANGED <<options, ctorOptions>>

SpecClassify == InitClassify /\ [][ClassifyFrame]_vars

----------------------------------------------------------------------------
(* One iteration run twice: an instance in some lastDetection, stableSince  *)
(* runs detect() on a frame at some timestamp; then an instance brought to  *)
(* the same lastDetection and stableSince, whatever its latch, runs         *)
(* detect() on the same frame at the same timestamp.                        *)

TwiceFrames ==
    Frames \cup ShortFrames \cup DistanceFrames \cup FaceCountFrames
        \cup {FaceFrame(g, FACE_LANDMARKS, TRUE, TRUE, TRUE, hs, px) :
                 g \in {GCentered, GMoved, GJumped}, hs \in HandSets, px \in Pixels}

\* the instances differ at most in debugMode
DebugOptions == {[k \in {"debugMode"} |-> b] : b \in BOOLEAN}

InitTwice ==
    /\ initPc = "done"
    /\ camera = "ready"
    /\ faceLandmarker = "open"
    /\ handLandmarker = "open"
    /\ animationFrameId = "pending"
    /\ rafPending = 1
    /\ isCapturing \in BOOLEAN
    /\ blobPending = 0
    /\ now = 2
    /\ \E st \in {<<NoFace, 0>>, <<estimateBoundingBox(GoodFrame(GCentered)), 0>>,
                  <<estimateBoundingBox(GoodFrame(GCentered)), 2>>} :
          lastDetection = st[1] /\ stableSince = st[2]
    /\ frame \in TwiceFrames
    /\ emitted = <<>>
    /\ iter = [IterInit EXCEPT !.kind = "init", !.sched = TRUE]
    /\ hist = HistInit
    /\ twin = [phase |-> "start", ld |-> lastDetection, ss |-> stableSince, now |-> now,
               t |-> 0, status |-> "NONE", ld1 |-> NoFace, ss1 |-> 0,
               cap |-> isCapturing, cap1 |-> FALSE, cap2 |-> FALSE, em1 |-> <<>>,
               debug1 |-> FALSE]
    /\ ctorOptions \in DebugOptions
    /\ options = resolveOptions(ctorOptions)

FirstRun ==
    /\ twin.phase = "start"
    /\ \E dt \in 1..MaxDt : DetectWith(frame, "none", dt)
    /\ frame' = frame
    /\ twin' = [twin EXCEPT !.phase = "first"]
    /\ UNCHANGED <<options, ctorOptions>>

\* the outcome of the first run is noted, and an instance with the same
\* lastDetection and stableSince stands ready for the same frame
SameStateAgain ==
    /\ twin.phase = "first"
    /\ \E b \in BOOLEAN :
          /\ isCapturing' = b
          /\ twin' = [twin EXCEPT !.phase = "again", !.t = now, !.status = emitted[1],
                                  !.ld1 = lastDetection, !.ss1 = stableSince,
                                  !.cap1 = isCapturing, !.cap2 = b, !.em1 = emitted,
                                  !.debug1 = options.debugMode]
    /\ ctorOptions' \in DebugOptions
    /\ options' = resolveOptions(ctorOptions')
    /\ lastDetection' = twin.ld
    /\ stableSince' = twin.ss
    /\ now' = twin.now
    /\ faceLandmarker' = "open"
    /\ handLandmarker' = "open"
    /\ animationFrameId' = "pending"
    /\ rafPending' = 1
    /\ emitted' = <<>>
    /\ iter' = [IterInit EXCEPT !.kind = "init", !.sched = TRUE]
    /\ UNCHANGED <<initPc, camera, blobPending, frame, hist>>

SecondRun ==
    /\ twin.phase = "again"
    /\ DetectWith(frame, "none", twin.t - now)
    /\ frame' = frame
    /\ twin' = [twin EXCEPT !.phase = "second"]
    /\ UNCHANGED <<options, ctorOptions>>

NextTwice == FirstRun \/ SameStateAgain \/ SecondRun

SpecTwice == InitTwice /\ [][NextTwice]_vars

----------------------------------------------------------------------------
(* Options: an instance is constructed with some of the optional options   *)
(* given, and setStatus is then called with any status, as the loop, the   *)
(* capture step and the error handlers call it, without an override.       *)

ValidationStatus ==
    {"INITIALIZING", "NO_FACE_DETECTED", "FACE_DETECTED", "TOO_CLOSE", "TOO_FAR",
     "OFF_CENTER", "FACE_OBSTRUCTED", "HEAD_NOT_STRAIGHT", "MULTIPLE_FACES",
     "POOR_ILLUMINATION", "NOT_NEUTRAL_EXPRESSION", "DARK_GLASSES", "STAY_STILL",
     "CAPTURING", "SUCCESS", "ERROR"}

\* a value for each threshold that is neither the default of the code nor the
\* documented one
GivenThresholds ==
    [minDetectionConfidence |-> 60,
     minIlluminationThreshold |-> 80,
     minFaceSizeFactor |-> 20,
     maxFaceSizeFactor |-> 70,
     stabilizationTimeThreshold |-> 3,
     stabilityMovementThreshold |-> 8,
     minFaceVisibilityScore |-> 60,
     maxHeadTiltDegrees |-> 20,
     maxHandFaceDistance |-> 10]

GivenLocales == {"pt-BR", "es", ""}

GivenMessages ==
    {NoMessages,
     [s \in {"INITIALIZING"} |-> <<"custom", s>>],
     [s \in {"STAY_STILL", "ERROR"} |-> <<"custom", s>>],
     [s \in {"STAY_STILL"} |-> <<>>]}

\* at most two of the options are given, or all of them
GivenNames ==
    {S \in SUBSET DOMAIN defaultOptions :
        Cardinality(S) <= 2 \/ S = DOMAIN defaultOptions}

CtorOptions ==
    {[k \in S |-> CASE k = "locale" -> loc
                    [] k = "customMessages" -> cm
                    [] k = "debugMode" -> dbg
                    [] OTHER -> GivenThresholds[k]] :
        S \in GivenNames, loc \in GivenLocales, cm \in GivenMessages, dbg \in BOOLEAN}

InitOptions ==
    /\ initPc = "vision"
    /\ camera = "pending"
    /\ faceLandmarker = "null"
    /\ handLandmarker = "null"
    /\ animationFrameId = "null"
    /\ rafPending = 0
    /\ lastDetection = NoFace
    /\ stableSince = 0
    /\ isCapturing = FALSE
    /\ blobPending = 0
    /\ now = 0
    /\ frame = NoFrame
    /\ emitted = <<"INITIALIZING", "INITIALIZING">>
    /\ iter = IterInit
    /\ hist = HistInit
    /\ twin = NoTwin
    /\ ctorOptions \in CtorOptions
    /\ options = resolveOptions(ctorOptions)

\* setStatus, lines 671-683, called with a status and no override
SetStatus ==
    /\ \E s \in ValidationStatus :
          /\ emitted' = <<s>>
          /\ hist' = Observe(hist, s)
    /\ iter' = [IterInit EXCEPT !.kind = "setStatus"]
    /\ UNCHANGED <<initPc, camera, faceLandmarker, handLandmarker, animationFrameId,
                   rafPending, lastDetection, stableSince, isCapturing, blobPending,
                   now, frame, twin, options, ctorOptions>>

SpecOptions == InitOptions /\ [][SetStatus]_vars

\* the override passed with the i-th status of the last handler: only init,
\* line 621, passes one, with the second INITIALIZING of the construction
messageOverride(i) ==
    IF iter.kind = "construct" /\ i = 2 THEN getLoadingModelsMessage(options.locale)
    ELSE <<>>

\* setStatus, line 676: the message passed to onStatusUpdate with the i-th
\* status of the last handler
message(i) == getMessageForStatus(emitted[i], messageOverride(i), options)

----------------------------------------------------------------------------
(* A session left to run for ever. Nobody calls stop(). The clock has no    *)
(* upper bound, and detect() reads it only through now - stableSince, so    *)
(* its origin is moved after every iteration to keep the state finite.      *)

\* the value the clock is set back to
Origin == stabilizationTimeThreshold + 1

Min(a, b) == IF a < b THEN a ELSE b

LiveFrames ==
    {GoodFrame(GCentered), GoodFrame(GMoved), GoodFrame(GJumped), NoFaceFrame(0, <<>>)}

\* every frame undisturbed, and the faults of one iteration on a valid pose
LiveInputs ==
    {<<f, "none">> : f \in LiveFrames}
        \cup {<<GoodFrame(GCentered), d>> :
                 d \in {"noVideo", "detectThrows", "cb2", "noCaptureCtx", "captureThrows"}}

InitLive ==
    /\ initPc = "vision"
    /\ camera = "pending"
    /\ faceLandmarker = "null"
    /\ handLandmarker = "null"
    /\ animationFrameId = "null"
    /\ rafPending = 0
    /\ lastDetection = NoFace
    /\ stableSince = 0
    /\ isCapturing = FALSE
    /\ blobPending = 0
    /\ now = Origin
    /\ frame = NoFrame
    /\ emitted = <<"INITIALIZING", "INITIALIZING">>
    /\ iter = IterInit
    /\ hist = HistInit
    /\ twin = [phase |-> "live", good |-> FALSE]
    /\ ctorOptions = NoOptions
    /\ options = resolveOptions(ctorOptions)

\* a scheduled detect() runs; twin.good notes whether it was handed a valid
\* pose and nothing went wrong around it
DetectLive ==
    /\ now = Origin
    /\ \E in \in LiveInputs, dt \in 1..MaxDt :
          /\ DetectWith(in[1], in[2], dt)
          /\ twin' = [twin EXCEPT !.good = (in[1] \in {GoodFrame(GCentered), GoodFrame(GMoved)}
                                             /\ in[2] = "none")]
    /\ frame' = NoFrame
    /\ UNCHANGED <<options, ctorOptions>>

\* lines 893-899 read the clock only as now - stableSince >= threshold: moving
\* the origin keeps that difference up to the threshold; the times noted in
\* the history are dropped
Rebase ==
    /\ now # Origin
    /\ now' = Origin
    /\ stableSince' = IF stableSince = 0 THEN 0
                      ELSE Origin - Min(now - stableSince, stabilizationTimeThreshold)
    /\ iter' = [iter EXCEPT !.t = 0, !.prevBad = 0, !.prevSince = 0]
    /\ hist' = [hist EXCEPT !.lastBad = 0, !.lastUnstable = 0]
    /\ UNCHANGED <<initPc, camera, faceLandmarker, handLandmarker, animationFrameId,
                   rafPending, lastDetection, isCapturing, blobPending, frame, emitted,
                   twin,
                   options, ctorOptions>>

NextLive ==
    \/ CameraSettles
    \/ InitStep
    \/ InitStartLoop
    \/ DetectLive
    \/ BlobCallback
    \/ Rebase

\* promises settle, requested animation frames are delivered, callbacks run
SpecLive ==
    /\ InitLive
    /\ [][NextLive]_vars
    /\ WF_vars(CameraSettles) /\ WF_vars(InitStep) /\ WF_vars(InitStartLoop)
    /\ WF_vars(DetectLive) /\ WF_vars(BlobCallback) /\ WF_vars(Rebase)

----------------------------------------------------------------------------
(* C1: precedence of the checks *)

\* the outcome of each check on frame f, in the documented order, paired with
\* the status the check is assigned: "pass", "fail", or "none" when the check
\* cannot be evaluated on f
CheckOutcomes(f) ==
    LET b == estimateBoundingBox(f)
        dist == checkFaceDistance(b, minFaceSizeFactor, maxFaceSizeFactor)
        Of(ok) == IF ok THEN "pass" ELSE "fail"
    IN << <<Of(dist # "TOO_FAR"), "TOO_FAR">>,
          <<Of(dist # "TOO_CLOSE"), "TOO_CLOSE">>,
          <<IF f.count <= MEDIAPIPE_NOSE_TIP THEN "none"
            ELSE Of(isPointInsideOval(f.nose[1], f.nose[2]) /\ isFaceBoundingBoxInsideOval(b)),
            "OFF_CENTER">>,
          <<Of(isFaceGeometryPlausible(f)), "FACE_OBSTRUCTED">>,
          <<Of(isHeadStraight(f)), "HEAD_NOT_STRAIGHT">>,
          <<Of(~(Len(f.hands) > 0 /\ isHandNearFace(f.hands[1], b, maxHandFaceDistance))),
            "FACE_OBSTRUCTED">>,
          <<Of(isNeutralExpression(f)), "NOT_NEUTRAL_EXPRESSION">>,
          <<Of(~hasDarkGlasses(f, f.px)), "DARK_GLASSES">>,
          <<IF ~f.px.ctx \/ f.px.throws THEN "none"
            ELSE Of(f.px.brightness >= minIlluminationThreshold),
            "POOR_ILLUMINATION">> >>

\* first failure wins: the status of the first check that does not pass, "PASS"
\* when all pass, "NONE" when the first check that does not pass has no outcome
FirstFailureWins(f) ==
    LET o == CheckOutcomes(f)
        bad == {i \in 1..Len(o) : o[i][1] # "pass"}
        first == CHOOSE i \in bad : \A j \in bad : i <= j
    IN IF bad = {} THEN "PASS"
       ELSE IF o[first][1] = "fail" THEN o[first][2] ELSE "NONE"

\* C1: for a frame with exactly one face the classification status is the one
\* of the first failing check in the order distance, centering, plausibility,
\* head pose, hand proximity, expression, dark glasses, illumination, and
\* STAY_STILL or CAPTURING is emitted only when every check passes.
C1_FirstFailureWins ==
    (iter.kind = "classify" /\ frame # NoFrame /\ frame.faces = 1) =>
        LET ref == FirstFailureWins(frame)
        IN /\ Len(emitted) >= 1
           /\ ref \notin {"PASS", "NONE"} => emitted[1] = ref
           /\ ref = "PASS" <=> emitted[1] \in {"STAY_STILL", "CAPTURING"}

\* a frame failing head pose, expression and illumination at once is reported
\* as HEAD_NOT_STRAIGHT
C1_Witness ==
    /\ iter.kind = "classify"
    /\ frame # NoFrame /\ frame.faces = 1 /\ frame.count = FACE_LANDMARKS
    /\ ~frame.straight /\ ~frame.neutral /\ frame.plausible
    /\ frame.px.brightness < minIlluminationThreshold
    /\ emitted = <<"HEAD_NOT_STRAIGHT">>

----------------------------------------------------------------------------
(* C2: statuses emitted per iteration *)

\* C2 as stated: every iteration that runs classification emits exactly one
\* status through onStatusUpdate.
C2_ExactlyOneStatus ==
    iter.kind = "classify" => Len(emitted) = 1

\* C2 amended: every iteration that runs classification emits at least one
\* status; exactly one unless it fires the capture or a step throws after the
\* status was emitted. The capture iteration emits CAPTURING then SUCCESS (ERROR
\* in between when captureImage gets no context); an iteration in which a step
\* throws after a status was emitted ends its emissions with ERROR.
C2_AtLeastOneStatus ==
    iter.kind = "classify" =>
        /\ Len(emitted) >= 1
        /\ (~iter.fired /\ ~iter.late) => Len(emitted) = 1
        /\ (iter.fired /\ ~iter.late) =>
               emitted \in {<<"CAPTURING", "SUCCESS">>, <<"CAPTURING", "ERROR", "SUCCESS">>}
        /\ iter.late => (Len(emitted) >= 2 /\ emitted[Len(emitted)] = "ERROR")

\* the capture iteration has run and emitted two statuses
C2_Witness ==
    iter.kind = "classify" /\ iter.fired /\ emitted = <<"CAPTURING", "SUCCESS">>

----------------------------------------------------------------------------
(* C3: stability reset *)

\* C3: after an iteration whose last emitted status is not STAY_STILL or
\* CAPTURING (a rejecting status, FACE_DETECTED, ERROR, SUCCESS), stableSince
\* is null.
C3_ResetOnOtherStatus ==
    (iter.kind = "classify" /\ Len(emitted) >= 1
        /\ emitted[Len(emitted)] \notin {"STAY_STILL", "CAPTURING"})
    => stableSince = 0

----------------------------------------------------------------------------
(* C4: the capture fires once *)

----------------------------------------------------------------------------
(* C5, C6: the stability window *)

\* C5: when CAPTURING is emitted at time t, no iteration later than
\* t - stabilizationTimeThreshold emitted a status other than STAY_STILL.
C5_HeldContinuously ==
    (iter.kind = "classify" /\ Has(emitted, "CAPTURING")) =>
        (iter.prevBad = 0 \/ iter.prevBad <= iter.t - stabilizationTimeThreshold)

\* C6: a frame judged unstable by isFaceStable resets the timer and is reported
\* STAY_STILL, and CAPTURING is emitted only when the timer was started after
\* the last unstable frame and has run for stabilizationTimeThreshold.
C6_UnstableRestartsTimer ==
    /\ (iter.kind = "classify" /\ iter.stable = "unstable") =>
           (stableSince = 0 /\ emitted[1] = "STAY_STILL")
    /\ (iter.kind = "classify" /\ Has(emitted, "CAPTURING")) =>
           /\ stableSince > hist.lastUnstable
           /\ iter.t - stableSince >= stabilizationTimeThreshold

\* a face that had been stable for a while jumped: the running timer was reset
C6_Witness ==
    /\ iter.kind = "classify" /\ iter.stable = "unstable"
    /\ iter.prevSince # 0 /\ lastDetection # NoFace
    /\ stableSince = 0 /\ emitted = <<"STAY_STILL">>

----------------------------------------------------------------------------
(* C7, C8: stop() *)

\* C7: once stop() has returned no iteration runs and no observer callback is
\* invoked.
C7_SilentAfterStop == ~hist.afterStop

\* C8: after stop() has been called no landmarker of the instance stays open.
C8_LandmarkersClosed ==
    hist.stopped => (faceLandmarker # "open" /\ handLandmarker # "open")

----------------------------------------------------------------------------
(* C9, C10: the capture step *)

IsPrefix(a, b) == Len(a) <= Len(b) /\ \A i \in 1..Len(a) : a[i] = b[i]

\* C9: in a successful capture the latch is set, then the image is handed to
\* onCaptureSuccess, then SUCCESS is emitted, then the loop is stopped.
C9_CaptureOrder ==
    hist.captureSuccess > 0 => IsPrefix(hist.order, <<"latch", "image", "SUCCESS", "stop">>)

\* C10: when image extraction fails, SUCCESS is not emitted and
\* onCaptureSuccess is not invoked.
C10_NoSuccessOnFailure ==
    hist.captureFailed =>
        (~Has(hist.order, "SUCCESS") /\ hist.captureSuccess = 0)

----------------------------------------------------------------------------
(* C11: the latch after a failed capture *)

\* C11: after a capture extraction failure (no canvas context, or no image
\* blob) the isCapturing latch is false again.
C11_LatchReleased ==
    hist.captureFailed => ~isCapturing

----------------------------------------------------------------------------
(* C12: faults inside an iteration *)

\* C12: an iteration in which a step throws reports ERROR and still requests
\* the next iteration.
C12_FaultReportedLoopContinues ==
    (iter.kind = "classify" /\ iter.caught) =>
        (Has(emitted, "ERROR") /\ iter.sched /\ rafPending > 0)

----------------------------------------------------------------------------
(* C13: failed initialization *)

\* C13: once initialization has failed (a model or detector failed to load, or
\* the camera could not be set up) the detection loop is not started: no
\* iteration is requested or runs.
C13_InitFailureIsFatal ==
    (initPc = "failed" \/ camera = "failed") =>
        (initPc # "done" /\ rafPending = 0 /\ iter.kind \notin {"classify", "skip"})

----------------------------------------------------------------------------
(* C14: landmark lists shorter than 478 *)

\* C14: a frame with one face whose landmark list has fewer than 478 entries
\* gets exactly one status, a rejecting one: not STAY_STILL, not CAPTURING and
\* not ERROR.
C14_ShortListFailsClosed ==
    (iter.kind = "classify" /\ frame # NoFrame /\ frame.faces = 1
        /\ frame.count < FACE_LANDMARKS)
    => (Len(emitted) = 1
        /\ emitted[1] \notin {"STAY_STILL", "CAPTURING", "SUCCESS", "ERROR"}
        /\ ~iter.caught)

----------------------------------------------------------------------------
(* C15: the face count comes first *)

\* C15: a frame with no face is reported NO_FACE_DETECTED and a frame with
\* several faces MULTIPLE_FACES, whatever the landmarks, hands and brightness,
\* in every iteration the frame is seen, and the stability timer is null after.
C15_FaceCountFirst ==
    (iter.kind = "classify" /\ frame # NoFrame /\ frame.faces # 1) =>
        /\ emitted = <<IF frame.faces > 1 THEN "MULTIPLE_FACES" ELSE "NO_FACE_DETECTED">>
        /\ stableSince = 0

\* two faces with a hand near the first one, seen while the timer was running
C15_Witness ==
    /\ iter.kind = "classify" /\ frame # NoFrame /\ frame.faces = 2
    /\ Len(frame.hands) > 0 /\ iter.prevSince # 0
    /\ emitted = <<"MULTIPLE_FACES">> /\ stableSince = 0

----------------------------------------------------------------------------
(* C16: centering *)

----------------------------------------------------------------------------
(* C17: hands *)

\* C17: when the distance, centering, plausibility and head-pose checks pass
\* and any detected hand has a landmark within maxHandFaceDistance of the
\* centre of the bounding box, the status is FACE_OBSTRUCTED and the timer is
\* reset.
C17_AnyHandNear ==
    (iter.kind = "classify" /\ frame # NoFrame /\ frame.faces = 1
        /\ frame.count = FACE_LANDMARKS
        /\ estimateBoundingBox(frame).width >= minFaceSizeFactor
        /\ estimateBoundingBox(frame).width <= maxFaceSizeFactor
        /\ isPointInsideOval(frame.nose[1], frame.nose[2])
        /\ isFaceBoundingBoxInsideOval(estimateBoundingBox(frame))
        /\ frame.plausible /\ frame.straight
        /\ \E i \in 1..Len(frame.hands) :
              isHandNearFace(frame.hands[i], estimateBoundingBox(frame), maxHandFaceDistance))
    => (emitted = <<"FACE_OBSTRUCTED">> /\ stableSince = 0)

----------------------------------------------------------------------------
(* C18: distance bounds *)

----------------------------------------------------------------------------
(* C19: Scenario A *)

\* C19: a centred face 0.40 wide with a valid pose, bright and without hands,
\* is accepted in every frame (STAY_STILL or CAPTURING), and once it has been
\* held still for stabilizationTimeThreshold the iteration emits CAPTURING and
\* SUCCESS and extracts one image.
C19_ScenarioA ==
    (iter.kind = "classify" /\ frame \in ScenarioAFrames) =>
        /\ emitted[1] \in {"STAY_STILL", "CAPTURING"}
        /\ (iter.prevSince # 0 /\ iter.t - iter.prevSince >= stabilizationTimeThreshold)
               => (emitted = <<"CAPTURING", "SUCCESS">> /\ hist.captureCalls = 1
                   /\ blobPending = 1)

----------------------------------------------------------------------------
(* C20: determinism of the classification *)

----------------------------------------------------------------------------
(* C25: the hand distance at its limit *)

\* squared distance, doubled coordinates, of point p from the centre of box b
HandDist2(p, b) ==
    (2 * p[1] - (2 * b.xMin + b.width)) * (2 * p[1] - (2 * b.xMin + b.width))
        + (2 * p[2] - (2 * b.yMin + b.height)) * (2 * p[2] - (2 * b.yMin + b.height))

\* C25: when the checks before the hand check pass and the first detected hand
\* has a landmark at maxHandFaceDistance from the face centre or nearer, the
\* status is FACE_OBSTRUCTED.
C25_HandAtLimitObstructs ==
    (iter.kind = "classify" /\ frame # NoFrame /\ frame.faces = 1
        /\ frame.count = FACE_LANDMARKS
        /\ estimateBoundingBox(frame).width >= minFaceSizeFactor
        /\ estimateBoundingBox(frame).width <= maxFaceSizeFactor
        /\ isPointInsideOval(frame.nose[1], frame.nose[2])
        /\ isFaceBoundingBoxInsideOval(estimateBoundingBox(frame))
        /\ frame.plausible /\ frame.straight
        /\ Len(frame.hands) > 0
        /\ \E j \in 1..Len(frame.hands[1]) :
              HandDist2(frame.hands[1][j], estimateBoundingBox(frame))
                  <= 4 * maxHandFaceDistance * maxHandFaceDistance)
    => emitted = <<"FACE_OBSTRUCTED">>

----------------------------------------------------------------------------
(* C30: what a rejection leaves behind *)

RejectingStatuses ==
    {"NO_FACE_DETECTED", "MULTIPLE_FACES", "TOO_CLOSE", "TOO_FAR", "OFF_CENTER",
     "FACE_OBSTRUCTED", "HEAD_NOT_STRAIGHT", "NOT_NEUTRAL_EXPRESSION", "DARK_GLASSES",
     "POOR_ILLUMINATION"}

\* C30: after an iteration that emits a rejecting status both lastDetection
\* and stableSince are null.
C30_RejectionClearsState ==
    (iter.kind = "classify" /\ Len(emitted) = 1 /\ emitted[1] \in RejectingStatuses)
    => (lastDetection = NoFace /\ stableSince = 0)

----------------------------------------------------------------------------
(* C29: isFaceStable *)

\* movement of box cur against box prev in pixels: twice the centre deltas,
\* and the size deltas
Moved(cur, prev) ==
    [cx2 |-> Abs(videoWidth * ((2 * cur.xMin + cur.width) - (2 * prev.xMin + prev.width))) \div 100,
     cy2 |-> Abs(videoHeight * ((2 * cur.yMin + cur.height) - (2 * prev.yMin + prev.height))) \div 100,
     w |-> Abs(videoWidth * (cur.width - prev.width)) \div 100,
     h |-> Abs(videoHeight * (cur.height - prev.height)) \div 100]

----------------------------------------------------------------------------
(* C23: initialization comes first *)

\* C23: the session starts by emitting INITIALIZING; until init() has created
\* both landmarkers and the camera promise has settled only INITIALIZING and
\* ERROR are emitted and no iteration is requested, and an iteration that
\* classifies a frame finds both landmarkers created and the camera settled.
C23_InitializationFirst ==
    /\ iter.kind = "construct" => (Len(emitted) >= 1 /\ emitted[1] = "INITIALIZING")
    /\ initPc # "done" =>
           /\ rafPending = 0
           /\ \A i \in 1..Len(emitted) : emitted[i] \in {"INITIALIZING", "ERROR"}
    /\ iter.kind \in {"classify", "skip"} =>
           /\ initPc = "done"
           /\ faceLandmarker # "null" /\ handLandmarker # "null"
           /\ camera # "pending"

\* the first frame was classified, after the camera became ready
C23_Witness ==
    /\ iter.kind = "classify" /\ iter.t = 1
    /\ camera = "ready" /\ initPc = "done"
    /\ emitted = <<"STAY_STILL">>

----------------------------------------------------------------------------
(* C26: skipped iterations *)

\* C26: an iteration that skips classification emits no status, calls no
\* callback, leaves lastDetection, stableSince and isCapturing as they were and
\* leaves exactly one iteration requested.
C26_SkipChangesNothing ==
    [][iter'.kind = "skip" =>
          /\ emitted' = <<>>
          /\ hist'.captureSuccess = hist.captureSuccess
          /\ hist'.captureCalls = hist.captureCalls
          /\ lastDetection' = lastDetection
          /\ stableSince' = stableSince
          /\ isCapturing' = isCapturing
          /\ rafPending' = 1 /\ animationFrameId' = "pending"]_vars

\* an iteration was skipped while the stability timer was running
C26_Witness ==
    /\ iter.kind = "skip" /\ stableSince # 0 /\ lastDetection # NoFace
    /\ emitted = <<>> /\ rafPending = 1

----------------------------------------------------------------------------
(* C27: one iteration at a time *)

\* C27: at most one animation-frame request is pending at any moment; after an
\* iteration that requested the next one exactly one is pending, and after the
\* capture step none is.
C27_OneIterationAtATime ==
    /\ rafPending <= 1
    /\ (iter.kind \in {"classify", "skip"} /\ iter.sched) => rafPending = 1
    /\ (iter.kind = "classify" /\ ~iter.sched) => rafPending = 0

\* the capture step has run through its await: nothing is pending but the
\* toBlob callback
C27_Witness ==
    /\ iter.kind = "classify" /\ iter.fired /\ ~iter.caught
    /\ rafPending = 0 /\ blobPending = 1

----------------------------------------------------------------------------
(* C28: a held pose is eventually captured *)

\* the last iteration was handed a frame with one face that passes every
\* check and is stable relative to its predecessor
GoodRun == twin.good /\ iter.kind = "classify" /\ iter.stable = "stable"

\* C28: if from some frame on every frame holds one face that passes all
\* checks and is stable, then CAPTURING is emitted, SUCCESS follows and the
\* loop ends with no further iteration requested.
C28_HeldPoseIsCaptured ==
    <>[]GoodRun => <>(hist.loopEnded /\ rafPending = 0)

----------------------------------------------------------------------------
(* C21: debugMode *)

\* C21: two instances in the same lastDetection, stableSince and isCapturing
\* that are handed the same frame at the same time emit the same statuses and
\* end the iteration with the same lastDetection, stableSince and isCapturing,
\* whatever their debugMode.
C21_DebugModeChangesNothing ==
    (twin.phase = "second" /\ twin.cap2 = twin.cap) =>
        /\ emitted = twin.em1
        /\ lastDetection = twin.ld1
        /\ stableSince = twin.ss1
        /\ isCapturing = twin.cap1

\* the second instance ran in debug mode, the first did not, on a frame whose
\* face has fewer landmarks than the debug drawing reads
C21_Witness ==
    /\ twin.phase = "second" /\ twin.cap2 = twin.cap
    /\ options.debugMode /\ ~twin.debug1
    /\ frame.faces = 1 /\ frame.count < FACE_LANDMARKS
    /\ lastDetection # NoFace
    /\ Len(emitted) = 1

----------------------------------------------------------------------------
(* C22: defaults *)

\* C22: an option the caller omitted has the documented default.
C22_DocumentedDefaults ==
    \A k \in DOMAIN DocumentedDefaults :
        k \notin DOMAIN ctorOptions => options[k] = DocumentedDefaults[k]

----------------------------------------------------------------------------
(* C24: messages *)

\* C24: the message passed with every emitted status s is customMessages[s]
\* when the caller supplied one for s, and otherwise the text of s in the
\* configured locale.
C24_MessageOfStatus ==
    \A i \in 1..Len(emitted) :
        message(i) = IF emitted[i] \in DOMAIN options.customMessages
                     THEN options.customMessages[emitted[i]]
                     ELSE getMessage(emitted[i], options.locale)

----------------------------------------------------------------------------
(* Head pose from landmarks: utils isHeadStraight and isYawAcceptable.     *)
(* Landmark coordinates are in thousandths here, so 0.01 is 10. Each       *)
(* predicate yields its verdict and the denominators it divided by.        *)

Max(a, b) == IF a > b THEN a ELSE b

\* 100000 * tan(maxTiltDegrees): Math.atan(ratio) * (180 / Math.PI) > maxTiltDegrees
\* is ratio > tan(maxTiltDegrees)
TanOf(maxTiltDegrees) ==
    CASE maxTiltDegrees = 20 -> 36397
      [] maxTiltDegrees = 25 -> 46631
      [] maxTiltDegrees = 28 -> 53171
      [] maxTiltDegrees = 30 -> 57735

Pose(accept, dens) == [accept |-> accept, denominators |-> dens]

\* a running session, as init() leaves it, lines 618-661
SessionRunning ==
    /\ initPc = "done"
    /\ camera = "ready"
    /\ faceLandmarker = "open"
    /\ handLandmarker = "open"
    /\ animationFrameId = "pending"
    /\ rafPending = 1
    /\ lastDetection = NoFace
    /\ stableSince = 0
    /\ isCapturing = FALSE
    /\ blobPending = 0
    /\ now = 2
    /\ emitted = <<>>
    /\ iter = [IterInit EXCEPT !.kind = "init", !.sched = TRUE]
    /\ hist = HistInit
    /\ ctorOptions = NoOptions
    /\ options = resolveOptions(ctorOptions)

\* utils lines 436-469
isYawAcceptable(lm) ==
    IF lm.count < FACE_LANDMARKS THEN Pose(FALSE, {})
    ELSE LET leftEarToNoseX == Abs(lm.leftEar.x - lm.nose.x)
             rightEarToNoseX == Abs(lm.rightEar.x - lm.nose.x)
             divides == leftEarToNoseX > 10 /\ rightEarToNoseX > 10
             dens == IF divides THEN {Min(leftEarToNoseX, rightEarToNoseX)} ELSE {}
         IN \* asymmetryRatio > 1.4, the ratio being 1.0 when it is not computed
            IF divides /\ 10 * Max(leftEarToNoseX, rightEarToNoseX)
                              > 14 * Min(leftEarToNoseX, rightEarToNoseX)
            THEN Pose(FALSE, dens)
            ELSE IF lm.hasZ /\ Abs(lm.leftEar.z - lm.rightEar.z) > 50
            THEN Pose(FALSE, dens)
            ELSE Pose(TRUE, dens)

\* utils lines 153-263; averages of two coordinates are kept doubled
isHeadStraightOf(lm, maxTiltDegrees) ==
    IF lm.count < FACE_LANDMARKS THEN Pose(FALSE, {})
    ELSE
    LET eyeDeltaY == Abs(lm.leftEye.y - lm.rightEye.y)
        eyeDeltaX == Abs(lm.leftEye.x - lm.rightEye.x)
        noseOffsetX2 == 2 * lm.nose.x - (lm.leftEye.x + lm.rightEye.x)
        yaw == isYawAcceptable(lm)
        midEyesY2 == lm.leftEye.y + lm.rightEye.y
        mouthY2 == lm.upperLip.y + lm.lowerLip.y
        faceHeight == lm.chin.y - lm.forehead.y
        foreheadToEyes2 == midEyesY2 - 2 * lm.forehead.y
        eyesToNose2 == 2 * lm.nose.y - midEyesY2
        noseToMouth2 == mouthY2 - 2 * lm.nose.y
        mouthToChin2 == 2 * lm.chin.y - mouthY2
        d1 == {eyeDeltaX}
        d2 == d1 \cup yaw.denominators
        d3 == d2 \cup {faceHeight}
    IN IF eyeDeltaX < 10 THEN Pose(FALSE, {})
       ELSE IF 100000 * eyeDeltaY > TanOf(maxTiltDegrees) * eyeDeltaX THEN Pose(FALSE, d1)
       ELSE IF 100000 * Abs(noseOffsetX2) > TanOf(maxTiltDegrees) * 2 * eyeDeltaX
       THEN Pose(FALSE, d1)
       ELSE IF ~yaw.accept THEN Pose(FALSE, d2)
       ELSE IF faceHeight < 100 THEN Pose(FALSE, d2)
       ELSE IF 2 * lm.forehead.y > midEyesY2 + 40 THEN Pose(FALSE, d2)
       ELSE IF midEyesY2 > 2 * lm.nose.y + 40 THEN Pose(FALSE, d2)
       ELSE IF 2 * lm.nose.y > mouthY2 + 40 THEN Pose(FALSE, d2)
       ELSE IF mouthY2 >= 2 * lm.chin.y THEN Pose(FALSE, d2)
       ELSE IF 100 * foreheadToEyes2 < 12 * faceHeight \/ 100 * foreheadToEyes2 > 76 * faceHeight
       THEN Pose(FALSE, d3)
       ELSE IF 100 * eyesToNose2 < 6 * faceHeight \/ 100 * eyesToNose2 > 60 * faceHeight
       THEN Pose(FALSE, d3)
       ELSE IF 100 * noseToMouth2 < 4 * faceHeight \/ 100 * noseToMouth2 > 50 * faceHeight
       THEN Pose(FALSE, d3)
       ELSE IF 100 * mouthToChin2 < 8 * faceHeight \/ 100 * mouthToChin2 > 76 * faceHeight
       THEN Pose(FALSE, d3)
       ELSE Pose(TRUE, d3)

Pt(x, y) == [x |-> x, y |-> y]

\* a frontal face whose eye distance, ear offsets, face height and ear depth
\* are set apart
HeadLandmarks(eyeDist, leftEarDx, rightEarDx, height, z) ==
    [count |-> FACE_LANDMARKS,
     leftEye |-> Pt(500 - eyeDist \div 2, 400),
     rightEye |-> Pt(500 - eyeDist \div 2 + eyeDist, 400),
     nose |-> Pt(500, 500),
     upperLip |-> Pt(500, 590), lowerLip |-> Pt(500, 610),
     forehead |-> Pt(500, 300), chin |-> Pt(500, 300 + height),
     leftEar |-> [x |-> 500 - leftEarDx, y |-> 450, z |-> 0],
     rightEar |-> [x |-> 500 + rightEarDx, y |-> 450, z |-> IF z < 0 THEN 0 ELSE z],
     hasZ |-> z >= 0]

HeadFrames ==
    {HeadLandmarks(e, l, r, h, z) :
        e \in {0, 5, 9, 10, 200}, l \in {0, 5, 10, 11, 100, 140, 141, 200},
        r \in {0, 5, 10, 11, 100, 140, 141, 200}, h \in {0, 50, 99, 100, 400},
        z \in {-1, 0, 60}}

InitGeometry ==
    /\ SessionRunning
    /\ twin = NoTwin
    /\ frame \in HeadFrames

\* demo-standalone line 855: the head pose check of one frame
CheckHeadPose ==
    /\ iter.kind # "geometry"
    /\ iter' = [kind |-> "geometry",
                straight |-> isHeadStraightOf(frame, options.maxHeadTiltDegrees),
                yaw |-> isYawAcceptable(frame)]
    /\ UNCHANGED <<initPc, camera, faceLandmarker, handLandmarker, animationFrameId,
                   rafPending, lastDetection, stableSince, isCapturing, blobPending,
                   now, frame, emitted, hist, twin, options, ctorOptions>>

SpecGeometry == InitGeometry /\ [][CheckHeadPose]_vars

----------------------------------------------------------------------------
(* C31: near-zero denominators *)

\* C31: no predicate divides by zero, and a predicate whose denominator is
\* near zero (eye distance below 0.01, face height below 0.10, an ear within
\* 0.01 of the nose) rejects the face.
C31_NearZeroRejects ==
    iter.kind = "geometry" =>
        /\ 0 \notin (iter.straight.denominators \cup iter.yaw.denominators)
        /\ (Abs(frame.leftEye.x - frame.rightEye.x) < 10
              \/ frame.chin.y - frame.forehead.y < 100) => ~iter.straight.accept
        /\ (Abs(frame.leftEar.x - frame.nose.x) < 10
              \/ Abs(frame.rightEar.x - frame.nose.x) < 10) => ~iter.yaw.accept

----------------------------------------------------------------------------
(* C32: the glasses check fails open *)

\* the glasses check cannot sample the eye regions of the frame
EyeFault(f) == f.count < FACE_LANDMARKS \/ ~f.px.eyeCtx \/ f.px.eyeThrows

\* C32: when the eye regions cannot be sampled (no 2D context, sampling
\* throws) or the landmark list is shorter than 478, hasDarkGlasses returns
\* false: the frame is not classified DARK_GLASSES, and a frame that reached
\* the glasses check goes on to the illumination check instead of ERROR.
C32_GlassesCheckFailsOpen ==
    (iter.kind = "classify" /\ frame.faces = 1 /\ EyeFault(frame)) =>
        /\ ~hasDarkGlasses(frame, frame.px)
        /\ \A i \in 1..Len(emitted) : emitted[i] # "DARK_GLASSES"
        /\ (frame \in EyeFaultFrames /\ frame.count = FACE_LANDMARKS) =>
               /\ \A i \in 1..Len(emitted) : emitted[i] # "ERROR"
               /\ IF frame.px.brightness < minIlluminationThreshold
                  THEN emitted[1] = "POOR_ILLUMINATION"
                  ELSE emitted[1] \in {"STAY_STILL", "CAPTURING"}

\* sampling the dark eye regions threw, and the frame passed on a valid pose
C32_Witness ==
    /\ iter.kind = "classify"
    /\ frame \in EyeFaultFrames /\ frame.count = FACE_LANDMARKS
    /\ frame.px.eyeThrows /\ frame.px.eyeCtx /\ frame.px.eyeBrightness = 20
    /\ emitted = <<"STAY_STILL">>

----------------------------------------------------------------------------
(* A face that drifts: a valid pose 5 px left of the centre, centred, and   *)
(* 5 px right of it, so that one step moves the face by 0, 5 or 10 px.      *)
(* twin.seen lists the bounding boxes of the frames classified so far with  *)
(* the time of each.                                                        *)

GDriftL == [ext |-> Ext(35, 30, 55, 70), nose |-> <<45, 50>>]
GDriftR == [ext |-> Ext(45, 30, 65, 70), nose |-> <<55, 50>>]

DriftFrames == {GoodFrame(g) : g \in {GDriftL, GCentered, GDriftR}}

\* a frame is classified, or the detector throws, or the video has no
\* dimensions
DriftInputs ==
    {<<f, d>> : f \in DriftFrames, d \in {"none", "detectThrows", "noVideo"}}

InitDrift ==
    /\ SessionRunning
    /\ frame = NoFrame
    /\ twin = [phase |-> "drift", seen |-> <<>>]

DetectDrift ==
    /\ \E in \in DriftInputs, dt \in 1..MaxDt :
          /\ DetectWith(in[1], in[2], dt)
          /\ frame' = in[1]
          /\ twin' = IF in[2] = "none"
                     THEN [twin EXCEPT !.seen = Append(@, [box |-> estimateBoundingBox(in[1]),
                                                           t |-> now'])]
                     ELSE twin
    /\ UNCHANGED <<options, ctorOptions>>

SpecDrift == InitDrift /\ [][DetectDrift]_vars

----------------------------------------------------------------------------
(* C33: stability is judged frame to frame *)

\* box cur is within the movement tolerance of box prev
Within(cur, prev) ==
    LET m == Moved(cur, prev)
    IN /\ m.cx2 <= 2 * stabilityMovementThreshold
       /\ m.cy2 <= 2 * stabilityMovementThreshold
       /\ m.w <= 2 * stabilityMovementThreshold
       /\ m.h <= 2 * stabilityMovementThreshold

\* C33: when CAPTURING is emitted, every frame classified since the timer
\* started, the frame that started it included, was within the movement
\* tolerance of the frame classified immediately before it.
C33_FrameToFrame ==
    (twin.phase = "drift" /\ Len(emitted) > 0 /\ emitted[1] = "CAPTURING") =>
        /\ Len(twin.seen) >= 2
        /\ twin.seen[1].t < stableSince
        /\ \A i \in 2..Len(twin.seen) :
              twin.seen[i].t >= stableSince =>
                  Within(twin.seen[i].box, twin.seen[i - 1].box)

\* CAPTURING was emitted for a face that moved 5 px twice in the same
\* direction while the timer ran: 10 px in all, twice the tolerance
C33_Witness ==
    /\ twin.phase = "drift" /\ Len(emitted) > 0 /\ emitted[1] = "CAPTURING"
    /\ \E i \in 1..Len(twin.seen) :
          /\ twin.seen[i].t >= stableSince
          /\ ~Within(twin.seen[Len(twin.seen)].box, twin.seen[i].box)

----------------------------------------------------------------------------
(* C34: a face as wide as the oval *)

\* C34: a face with a nose landmark whose bounding box is at least 0.40 wide,
\* at most maxFaceSizeFactor wide and of positive height fails
\* isFaceBoundingBoxInsideOval wherever it is, and the frame is classified
\* OFF_CENTER with the timer reset.
C34_WideFaceIsOffCenter ==
    (iter.kind = "classify" /\ frame # NoFrame /\ frame.faces = 1
        /\ frame.count > MEDIAPIPE_NOSE_TIP
        /\ estimateBoundingBox(frame).width >= 2 * OVAL_RADIUS_X_FACTOR
        /\ estimateBoundingBox(frame).width <= maxFaceSizeFactor
        /\ estimateBoundingBox(frame).height > 0)
    => /\ ~isFaceBoundingBoxInsideOval(estimateBoundingBox(frame))
       /\ emitted = <<"OFF_CENTER">>
       /\ stableSince = 0

\* a face exactly 0.40 wide and 0.01 high around the centre of the frame, the
\* nose at the centre: OFF_CENTER
C34_Witness ==
    /\ iter.kind = "classify" /\ frame \in WideFrames
    /\ frame.ext = Ext(30, 50, 70, 51) /\ frame.nose = <<50, 50>>
    /\ isPointInsideOval(frame.nose[1], frame.nose[2])
    /\ emitted = <<"OFF_CENTER">>

----------------------------------------------------------------------------
(* C35: stop() twice *)

\* C35: close() is called at most once on each landmarker of an instance,
\* however often stop() is called.
C35_ClosedAtMostOnce ==
    faceLandmarker # "closedAgain" /\ handLandmarker # "closedAgain"

----------------------------------------------------------------------------
(* ReactSelfieCapture, part_005 lines 155-250: the effect that opens the    *)
(* camera and creates the FaceValidator, and its cleanup. The component is  *)
(* mounted with showCapture = true; every commit that changes a dependency  *)
(* runs the cleanup of the previous effect and then the effect again. An    *)
(* effect calls getUserMedia at most once and creates at most one           *)
(* FaceValidator, so streams and instances are named by their effect.       *)

\* the number of times the effect runs
MaxEffects == 3

\* no FaceValidator has been constructed: the fields have their initial
\* values, lines 469-482, and nothing was emitted or requested
Unconstructed ==
    /\ initPc = "new"
    /\ camera = "none"
    /\ faceLandmarker = "null"
    /\ handLandmarker = "null"
    /\ animationFrameId = "null"
    /\ rafPending = 0
    /\ lastDetection = NoFace
    /\ stableSince = 0
    /\ isCapturing = FALSE
    /\ blobPending = 0
    /\ now = 0
    /\ frame = NoFrame
    /\ emitted = <<>>
    /\ iter = [IterInit EXCEPT !.kind = "none"]
    /\ hist = HistInit

\* one run of the effect: where setupCameraAndSdk stands, its isCancelled
\* flag, whether it returned a cleanup and whether that has run, the stream
\* its getUserMedia call produced and the FaceValidator it created
EffectRun(pc, hasCleanup) ==
    [pc |-> pc, isCancelled |-> FALSE, hasCleanup |-> hasCleanup, cleaned |-> FALSE,
     stream |-> "none", sdk |-> "none"]

\* FaceValidator.stop seen from outside, demo-standalone.ts lines 1002-1016:
\* a running loop is cancelled; an init() that is still awaiting goes on
stopSdk(sdk) ==
    CASE sdk = "init" -> "initStopped"
      [] sdk = "loop" -> "stopped"
      [] OTHER -> sdk

\* lines 159-168 and 229-238: stop and forget the instance of sdkRef, stop
\* the tracks of the stream of the video element and detach it
ReleaseRefs(c) ==
    [c EXCEPT
        !.effects = [e \in DOMAIN c.effects |->
            [c.effects[e] EXCEPT
                !.sdk = IF e = c.sdkRef THEN stopSdk(c.effects[e].sdk)
                        ELSE c.effects[e].sdk,
                !.stream = IF e = c.srcObject THEN "stopped"
                           ELSE c.effects[e].stream]],
        !.sdkRef = 0,
        !.srcObject = 0]

\* the cleanup returned by the effect, lines 227-239
cleanup(c, e) ==
    ReleaseRefs([c EXCEPT !.effects[e].isCancelled = TRUE,
                          !.effects[e].cleaned = TRUE])

\* the cleanup of the latest effect, if it returned one that has not run
cleanupCurrent(c) ==
    IF c.effects[Len(c.effects)].hasCleanup /\ ~c.effects[Len(c.effects)].cleaned
    THEN cleanup(c, Len(c.effects))
    ELSE c

\* setupCameraAndSdk after the camera block, lines 187-216: nothing when an
\* instance exists or the effect was cancelled, otherwise a new FaceValidator
createSdk(c, e) ==
    IF c.sdkRef # 0 \/ c.effects[e].isCancelled
    THEN [c EXCEPT !.effects[e].pc = "done"]
    ELSE [c EXCEPT !.effects[e].pc = "done", !.effects[e].sdk = "init", !.sdkRef = e]

\* the body of the effect, lines 155-226, up to the first await of
\* setupCameraAndSdk
effectBody(c, show) ==
    IF ~show
    THEN ReleaseRefs([c EXCEPT !.showCapture = FALSE,
                               !.effects = Append(@, EffectRun("done", FALSE))])
    ELSE IF c.srcObject = 0
    THEN [c EXCEPT !.showCapture = TRUE,
                   !.effects = Append(@, EffectRun("getUserMedia", TRUE))]
    ELSE createSdk([c EXCEPT !.showCapture = TRUE,
                             !.effects = Append(@, EffectRun("sync", TRUE))],
                   Len(c.effects) + 1)

\* the component after its first commit: showCapture is true, line 103, and
\* the effect has called getUserMedia
InitEffect ==
    /\ Unconstructed
    /\ ctorOptions = NoOptions
    /\ options = resolveOptions(ctorOptions)
    /\ twin = effectBody([phase |-> "effect", mounted |-> TRUE, showCapture |-> TRUE,
                          effects |-> <<>>, srcObject |-> 0, sdkRef |-> 0], TRUE)

Component == <<initPc, camera, faceLandmarker, handLandmarker, animationFrameId,
               rafPending, lastDetection, stableSince, isCapturing, blobPending,
               now, frame, emitted, iter, hist, options, ctorOptions>>

\* a commit after showCapture or another dependency changed: the cleanup of
\* the previous effect, then the effect
Commit ==
    /\ twin.mounted /\ Len(twin.effects) < MaxEffects
    /\ \E show \in BOOLEAN : twin' = effectBody(cleanupCurrent(twin), show)
    /\ UNCHANGED Component

\* the component is unmounted: the cleanup of the latest effect
Unmount ==
    /\ twin.mounted
    /\ twin' = [cleanupCurrent(twin) EXCEPT !.mounted = FALSE]
    /\ UNCHANGED Component

\* the getUserMedia call of effect e settles, lines 177-186: a cancelled
\* effect returns, otherwise the stream is attached and play() is called
GetUserMediaSettles ==
    /\ \E e \in DOMAIN twin.effects, ok \in BOOLEAN :
        /\ twin.effects[e].pc = "getUserMedia"
        /\ twin' =
            IF ~ok THEN [twin EXCEPT !.effects[e].pc = "done"]
            ELSE IF twin.effects[e].isCancelled
            THEN [twin EXCEPT !.effects[e].pc = "done", !.effects[e].stream = "live"]
            ELSE [twin EXCEPT !.effects[e].pc = "play", !.effects[e].stream = "live",
                              !.srcObject = e]
    /\ UNCHANGED Component

\* the play() call of effect e settles, lines 186-216; a rejection goes to
\* the catch block, lines 217-222
PlaySettles ==
    /\ \E e \in DOMAIN twin.effects, ok \in BOOLEAN :
        /\ twin.effects[e].pc = "play"
        /\ twin' = IF ok THEN createSdk(twin, e)
                   ELSE [twin EXCEPT !.effects[e].pc = "done"]
    /\ UNCHANGED Component

\* init() of the instance of effect e ends, demo-standalone.ts lines 618-661:
\* it starts the loop, stopped in between or not, or fails with ERROR
SdkInitEnds ==
    /\ \E e \in DOMAIN twin.effects, ok \in BOOLEAN :
        /\ twin.effects[e].sdk \in {"init", "initStopped"}
        /\ twin' = [twin EXCEPT !.effects[e].sdk = IF ok THEN "loop" ELSE "failed"]
    /\ UNCHANGED Component

\* the instance of effect e captures and stops itself, lines 939-944
SdkCaptures ==
    /\ \E e \in DOMAIN twin.effects :
        /\ twin.effects[e].sdk = "loop"
        /\ twin' = [twin EXCEPT !.effects[e].sdk = "stopped"]
    /\ UNCHANGED Component

NextEffect ==
    \/ Commit
    \/ Unmount
    \/ GetUserMediaSettles
    \/ PlaySettles
    \/ SdkInitEnds
    \/ SdkCaptures

SpecEffect == InitEffect /\ [][NextEffect]_vars

\* C36: once the cleanup of an effect has run, the stream its getUserMedia
\* call produced has no live track and the FaceValidator it created is not
\* running.
C36_CleanupReleasesAll ==
    \A e \in DOMAIN twin.effects :
        twin.effects[e].cleaned =>
            /\ twin.effects[e].stream # "live"
            /\ twin.effects[e].sdk # "loop"

----------------------------------------------------------------------------
(* The constructor, demo-standalone.ts lines 484-490, as a step: the        *)
(* options name the video element and the container, and setupElements      *)
(* throws when neither gives an element.                                    *)

\* the selectors that match an element of the document
DocumentSelectors == {"#root"}

\* a container resolved without asking the document
resolveContainer_noQuery(o) ==
    IF "container" \notin DOMAIN o \/ o.container = "" THEN "null" ELSE "element"

\* resolveContainer, lines 551-557, of the container option: an absent or
\* empty value gives null, a selector what document.querySelector finds, an
\* element itself ("element")
resolveContainer(o) ==
    IF "container" \notin DOMAIN o \/ o.container = "" THEN "null"
    ELSE IF o.container = "element" \/ o.container \in DocumentSelectors THEN "element"
    ELSE "null"

RequiresElement == "FaceValidator requires either videoElement or container."

\* setupElements, lines 513-549: the error it throws, "" when it returns
setupElements(o) ==
    IF "videoElement" \notin DOMAIN o /\ resolveContainer(o) = "null"
    THEN RequiresElement
    ELSE ""

\* options.autoStart after resolveOptions, lines 435 and 493-496
autoStart(o) == IF "autoStart" \in DOMAIN o THEN o.autoStart ELSE TRUE

\* the element options a caller may give
ElementOptions ==
    {[k \in S |-> CASE k = "videoElement" -> "video"
                    [] k = "container" -> c
                    [] k = "autoStart" -> a
                    [] OTHER -> loc] :
        S \in SUBSET {"videoElement", "container", "autoStart", "locale"},
        c \in {"", "#missing", "#root", "element"},
        a \in BOOLEAN, loc \in GivenLocales}

\* before new FaceValidator(ctorOptions)
InitConstruct ==
    /\ Unconstructed
    /\ ctorOptions \in ElementOptions
    /\ options = NoOptions
    /\ twin = NoTwin

\* new FaceValidator(ctorOptions), lines 484-490: resolveOptions, then
\* setupElements, which may throw; then setStatus(INITIALIZING), initCamera()
\* when autoStart is set, and init() up to its first await
Construct ==
    /\ initPc = "new"
    /\ options' = resolveOptions(ctorOptions)
    /\ twin' = [phase |-> "construct", error |-> setupElements(ctorOptions)]
    /\ IF setupElements(ctorOptions) # ""
       THEN /\ initPc' = "threw"
            /\ iter' = [IterInit EXCEPT !.escaped = TRUE]
            /\ UNCHANGED <<camera, emitted>>
       ELSE /\ initPc' = "vision"
            /\ camera' = IF autoStart(ctorOptions) THEN "pending" ELSE "ready"
            /\ emitted' = <<"INITIALIZING", "INITIALIZING">>
            /\ iter' = IterInit
    /\ UNCHANGED <<faceLandmarker, handLandmarker, animationFrameId, rafPending,
                   lastDetection, stableSince, isCapturing, blobPending, now, frame,
                   hist, ctorOptions>>

NextConstruct ==
    \/ Construct
    \/ CameraSettles
    \/ InitStep
    \/ InitStartLoop

SpecConstruct == InitConstruct /\ [][NextConstruct]_vars

\* C37: a FaceValidator constructed with no videoElement and with no
\* container that resolves to an element fails with the error "FaceValidator
\* requires either videoElement or container."; no status was or is emitted,
\* no camera requested and no detection loop started.
C37_NoElementThrowsFirst ==
    (initPc # "new" /\ "videoElement" \notin DOMAIN ctorOptions
        /\ ("container" \notin DOMAIN ctorOptions
            \/ ctorOptions.container \notin {"element"} \cup DocumentSelectors))
    => /\ twin.error = RequiresElement
       /\ initPc = "threw"
       /\ emitted = <<>>
       /\ camera = "none"
       /\ rafPending = 0 /\ animationFrameId = "null"
       /\ faceLandmarker = "null" /\ handLandmarker = "null"
       /\ ~ENABLED NextConstruct

\* the container is a selector that matches nothing, and the constructor threw
C37_Witness ==
    /\ initPc = "threw"
    /\ "videoElement" \notin DOMAIN ctorOptions
    /\ "container" \in DOMAIN ctorOptions /\ ctorOptions.container = "#missing"
    /\ twin.error = RequiresElement
    /\ emitted = <<>>

====
